---------------------------- MODULE Spec2Model ----------------------------
(***************************************************************************)
(* A model of the cactuswar client's state synchronisation engine: the     *)
(* wire codec and message catalogue (src/src/protocol.rs), the event       *)
(* callbacks installed by start() (src/src/lib.rs: frame tick, socket      *)
(* message, key and mouse handlers), the per-frame entity updates          *)
(* (src/src/engine.rs) and the interpolation primitives (src/src/util.rs). *)
(*                                                                         *)
(* Numbers.  f32/f64 quantities are modelled in fixed point: the integer k *)
(* stands for k/Unit, so 1.0 is Unit and the purge threshold 0.05 is the   *)
(* test 100*k < 5*Unit.  On the wire an f32 is the 4-byte two's complement *)
(* of k.  u32 and f64 fields are kept as their byte tuples (they are only  *)
(* stored and compared, never used in arithmetic).                         *)
(*                                                                         *)
(* Rendering (canvas contexts, camera, lights, textures) is not part of    *)
(* the state: only the fields the synchronisation engine reads back are.   *)
(***************************************************************************)
EXTENDS Integers, Sequences, FiniteSets, TLC

(***************************************************************************)
(* Resolution of the fixed-point representation: 1.0 == Unit.              *)
(***************************************************************************)
Unit == 4

-----------------------------------------------------------------------------
(***************************************************************************)
(* WIRE CODEC (crate::binary::StreamPeerBuffer).  The module binary.rs is  *)
(* not among the source files; it is modelled from the specification       *)
(* (section 4.1): sequential reads of fixed width that advance a cursor,   *)
(* a length-prefixed string, and a failure (a panic in the source) when a  *)
(* read runs past the end of the buffer.  Little-endian, u16 string        *)
(* length.                                                                 *)
(***************************************************************************)
ByteAt(d, i) == IF i >= 1 /\ i <= Len(d) THEN d[i] ELSE 0

\* Reads at cursor p (the number of bytes already consumed).
get_u8(d, p) == ByteAt(d, p + 1)

get_u16(d, p) == ByteAt(d, p + 1) + 256 * ByteAt(d, p + 2)

get_16(d, p) ==
  LET u == get_u16(d, p) IN IF u >= 32768 THEN u - 65536 ELSE u

get_u32(d, p) ==
  <<ByteAt(d, p + 1), ByteAt(d, p + 2), ByteAt(d, p + 3), ByteAt(d, p + 4)>>

get_float(d, p) ==
  LET b3 == ByteAt(d, p + 4) IN
  ByteAt(d, p + 1) + 256 * ByteAt(d, p + 2) + 65536 * ByteAt(d, p + 3)
    + 16777216 * (IF b3 >= 128 THEN b3 - 256 ELSE b3)

get_double(d, p) ==
  <<ByteAt(d, p + 1), ByteAt(d, p + 2), ByteAt(d, p + 3), ByteAt(d, p + 4),
    ByteAt(d, p + 5), ByteAt(d, p + 6), ByteAt(d, p + 7), ByteAt(d, p + 8)>>

\* The bytes of the string whose u16 length header is at cursor p.
get_utf8(d, p) ==
  LET n == get_u16(d, p) IN [i \in 1..n |-> ByteAt(d, p + 2 + i)]

\* Width on the wire of the string at cursor p.
utf8_width(d, p) == 2 + get_u16(d, p)

put_u8(buf, v) == Append(buf, v)

put_u16(buf, v) == buf \o <<v % 256, (v \div 256) % 256>>

put_16(buf, v) == buf \o <<v % 256, (v \div 256) % 256>>

put_u32(buf, v) == buf \o v

put_float(buf, k) ==
  buf \o <<k % 256, (k \div 256) % 256, (k \div 65536) % 256,
           (k \div 16777216) % 256>>

put_double(buf, v) == buf \o v

put_utf8(buf, s) == put_u16(buf, Len(s)) \o s

\* A u32 given by a small number.
U32(n) == <<n % 256, (n \div 256) % 256, 0, 0>>

\* An f64 given by a small number (kept as its byte tuple).
F64(n) == <<n % 256, 0, 0, 0, 0, 0, 0, 0>>

-----------------------------------------------------------------------------
(***************************************************************************)
(* MESSAGE CATALOGUE (src/src/protocol.rs).                                *)
(***************************************************************************)
PacketInit == 0
PacketInput == 1
PacketCensus == 2
PacketHandshake == 3
PacketMessage == 4
PacketDeath == 5
PacketRespawn == 6
PacketLeaderboard == 7

EntityTypeTank == 0
EntityTypeShape == 1
EntityTypeBullet == 2

\* PacketFromU8 as it would be if it kept the low three bits of the byte.
PacketFromU8Wrapping(b) == b % 8

\* #[derive(FromPrimitive)] on Packet: Some(variant) for a listed value.
PacketFromU8(b) ==
  IF b \in {PacketInit, PacketInput, PacketCensus, PacketHandshake,
            PacketMessage, PacketDeath, PacketRespawn, PacketLeaderboard}
  THEN b ELSE -1

InitPacketEncode(name) == put_utf8(put_u8(<<>>, PacketInit), name)

MessagePacketEncode(message) == put_utf8(put_u8(<<>>, PacketMessage), message)

\* InputFlagsByte with the bits of A and D exchanged.
InputFlagsByteSwapped(p) ==
  (IF p.W THEN 16 ELSE 0) + (IF p.A THEN 2 ELSE 0) + (IF p.S THEN 4 ELSE 0)
    + (IF p.D THEN 8 ELSE 0) + (IF p.mouse_down THEN 1 ELSE 0)

\* The bit-packed key byte of an Input packet (the flags are distinct bits,
\* so the bitwise or is their sum).
InputFlagsByte(p) ==
  LET w == IF p.W THEN 16 ELSE 0
      a == IF p.A THEN 8 ELSE 0
      s == IF p.S THEN 4 ELSE 0
      d == IF p.D THEN 2 ELSE 0
      mouse_down == IF p.mouse_down THEN 1 ELSE 0
  IN w + a + s + d + mouse_down

InputPacketEncode(p) ==
  put_16(put_16(put_u8(put_u8(<<>>, PacketInput), InputFlagsByte(p)),
                p.mouse_position.x),
         p.mouse_position.y)

\* RespawnPacketEncode as it would be with a (zero) payload byte.
RespawnPacketEncodePadded == put_u8(put_u8(<<>>, PacketRespawn), 0)

RespawnPacketEncode == put_u8(<<>>, PacketRespawn)

\* A decode that ran past the end of the buffer (a panic in the source).
Underrun(d, p, n) == p + n > Len(d)

\* TankAt as it would be without the clamp of a negative health.
TankAtUnclamped(d, p) ==
  LET nameAt == p + 23
      msgAt == nameAt + utf8_width(d, nameAt)
      next == msgAt + utf8_width(d, msgAt)
  IN [ok |-> ~Underrun(d, p, 25) /\ ~Underrun(d, msgAt, 2) /\ next <= Len(d),
      next |-> next,
      ent |-> [kind |-> "Tank",
               id |-> get_u32(d, p),
               position |-> [x |-> get_16(d, p + 4), y |-> get_16(d, p + 6)],
               rotation |-> get_float(d, p + 8),
               velocity |-> [x |-> get_16(d, p + 12), y |-> get_16(d, p + 14)],
               mockup |-> get_u8(d, p + 16),
               health |-> get_float(d, p + 17),
               radius |-> get_u16(d, p + 21),
               name |-> get_utf8(d, nameAt),
               message |-> get_utf8(d, msgAt)]]

\* One Tank record at cursor p (after its kind byte).  Fields are read in
\* the order of the struct expression.
TankAt(d, p) ==
  LET nameAt == p + 23
      msgAt == nameAt + utf8_width(d, nameAt)
      next == msgAt + utf8_width(d, msgAt)
      health == get_float(d, p + 17)
  IN [ok |-> ~Underrun(d, p, 25) /\ ~Underrun(d, msgAt, 2) /\ next <= Len(d),
      next |-> next,
      ent |-> [kind |-> "Tank",
               id |-> get_u32(d, p),
               position |-> [x |-> get_16(d, p + 4), y |-> get_16(d, p + 6)],
               rotation |-> get_float(d, p + 8),
               velocity |-> [x |-> get_16(d, p + 12), y |-> get_16(d, p + 14)],
               mockup |-> get_u8(d, p + 16),
               health |-> IF health < 0 THEN 0 ELSE health,
               radius |-> get_u16(d, p + 21),
               name |-> get_utf8(d, nameAt),
               message |-> get_utf8(d, msgAt)]]

ShapeAt(d, p) ==
  [ok |-> ~Underrun(d, p, 14),
   next |-> p + 14,
   ent |-> [kind |-> "Shape",
            id |-> get_u32(d, p),
            position |-> [x |-> get_16(d, p + 4), y |-> get_16(d, p + 6)],
            health |-> get_float(d, p + 8),
            radius |-> get_u16(d, p + 12)]]

BulletAt(d, p) ==
  [ok |-> ~Underrun(d, p, 18),
   next |-> p + 18,
   ent |-> [kind |-> "Bullet",
            id |-> get_u32(d, p),
            position |-> [x |-> get_16(d, p + 4), y |-> get_16(d, p + 6)],
            radius |-> get_u16(d, p + 8),
            velocity |-> [x |-> get_16(d, p + 10), y |-> get_16(d, p + 12)],
            owner |-> get_u32(d, p + 14)]]

\* HashMap::insert: a later record with the same key replaces the earlier.
MapInsert(m, k, v) == [i \in DOMAIN m \cup {k} |-> IF i = k THEN v ELSE m[i]]

EmptyMap == [i \in {} |-> 0]

\* The entity loop of Census::decode: n records left, cursor p.  An unknown
\* kind byte reads (and logs) one u32 and goes on with the next iteration.
RECURSIVE CensusEntities(_, _, _, _)
CensusEntities(d, p, n, acc) ==
  IF n = 0 THEN [ok |-> TRUE, entities |-> acc]
  ELSE IF Underrun(d, p, 1) THEN [ok |-> FALSE, entities |-> acc]
  ELSE
    LET t == get_u8(d, p)
        r == CASE t = EntityTypeTank -> TankAt(d, p + 1)
               [] t = EntityTypeShape -> ShapeAt(d, p + 1)
               [] t = EntityTypeBullet -> BulletAt(d, p + 1)
               [] OTHER -> [ok |-> ~Underrun(d, p + 1, 4), next |-> p + 5]
    IN IF ~r.ok THEN [ok |-> FALSE, entities |-> acc]
       ELSE IF t \in {EntityTypeTank, EntityTypeShape, EntityTypeBullet}
       THEN CensusEntities(d, r.next, n - 1, MapInsert(acc, r.ent.id, r.ent))
       ELSE CensusEntities(d, r.next, n - 1, acc)

\* Census::decode on a buffer whose cursor stands at p.
CensusDecode(d, p) ==
  LET entity_count == get_u16(d, p)
      arena_size == get_u16(d, p + 2)
      level == get_float(d, p + 4)
      es == IF Underrun(d, p, 8) THEN [ok |-> FALSE, entities |-> EmptyMap]
            ELSE CensusEntities(d, p + 8, entity_count, EmptyMap)
  IN [ok |-> es.ok,
      entity_count |-> entity_count,
      arena_size |-> arena_size,
      level |-> level,
      entities |-> es.entities]

\* The barrels of one mockup: n left, cursor p.
RECURSIVE BarrelsAt(_, _, _, _)
BarrelsAt(d, p, n, acc) ==
  IF n = 0 THEN [ok |-> TRUE, next |-> p, barrels |-> acc]
  ELSE IF Underrun(d, p, 12) THEN [ok |-> FALSE, next |-> p, barrels |-> acc]
  ELSE BarrelsAt(d, p + 12, n - 1,
                 Append(acc, [width |-> get_float(d, p),
                              length |-> get_float(d, p + 4),
                              angle |-> get_float(d, p + 8)]))

RECURSIVE MockupsAt(_, _, _, _)
MockupsAt(d, p, n, acc) ==
  IF n = 0 THEN [ok |-> TRUE, mockups |-> acc]
  ELSE IF Underrun(d, p, 2) \/ Underrun(d, p, utf8_width(d, p) + 2)
  THEN [ok |-> FALSE, mockups |-> acc]
  ELSE
    LET q == p + utf8_width(d, p)
        bs == BarrelsAt(d, q + 2, get_u8(d, q + 1), <<>>)
    IN IF ~bs.ok THEN [ok |-> FALSE, mockups |-> acc]
       ELSE MockupsAt(d, bs.next, n - 1,
                      Append(acc, [name |-> get_utf8(d, p),
                                   fov |-> get_u8(d, q),
                                   barrels |-> bs.barrels]))

HandshakePacketDecode(d, p) ==
  LET ms == IF Underrun(d, p, 5) THEN [ok |-> FALSE, mockups |-> <<>>]
            ELSE MockupsAt(d, p + 5, get_u8(d, p + 4), <<>>)
  IN [ok |-> ms.ok, id |-> get_u32(d, p), mockups |-> ms.mockups]

DeathPacketDecode(d, p) ==
  [ok |-> ~Underrun(d, p, 8), time_alive |-> get_double(d, p)]

RECURSIVE LeaderboardEntries(_, _, _, _)
LeaderboardEntries(d, p, n, acc) ==
  IF n = 0 THEN [ok |-> TRUE, entries |-> acc]
  ELSE IF Underrun(d, p, 2) \/ Underrun(d, p, utf8_width(d, p) + 5)
  THEN [ok |-> FALSE, entries |-> acc]
  ELSE
    LET q == p + utf8_width(d, p)
    IN LeaderboardEntries(d, q + 5, n - 1,
                          Append(acc, [name |-> get_utf8(d, p),
                                       level |-> get_float(d, q),
                                       mockup |-> get_u8(d, q + 4)]))

LeaderboardPacketDecode(d, p) ==
  LET es == IF Underrun(d, p, 1) THEN [ok |-> FALSE, entries |-> <<>>]
            ELSE LeaderboardEntries(d, p + 1, get_u8(d, p), <<>>)
  IN [ok |-> es.ok, entries |-> es.entries]

-----------------------------------------------------------------------------
(***************************************************************************)
(* INTERPOLATION PRIMITIVES (src/src/util.rs).                             *)
(***************************************************************************)

\* x/den rounded away from zero: a nonzero real step is never lost to the
\* resolution of the fixed-point representation.
RoundAway(x, den) ==
  IF x >= 0 THEN (x + den - 1) \div den ELSE -((den - 1 - x) \div den)

\* Lerp::lerp with t = num/den: self + ((other - self) * t).
Lerp(self, other, num, den) == self + RoundAway((other - self) * num, den)

\* x/den rounded to the nearest integer, a tie to the even one: the rounding
\* of f32 and f64 arithmetic.
RoundNearestEven(x, den) ==
  LET q == x \div den
      r == x % den
  IN IF 2 * r < den THEN q
     ELSE IF 2 * r > den THEN q + 1
     ELSE IF q % 2 = 0 THEN q ELSE q + 1

\* LerpUlp as it would be with the factor 1 + t in place of t.
LerpUlpExtrapolating(self, other, num, den) ==
  RoundNearestEven(self * den + (other - self) * (den + num), den)

\* Lerp::lerp with t = num/den on two floats of one binade, counted in units
\* of the spacing of the floats there (ulp): other - self is exact, and the
\* sum self + (other - self) * t is rounded to the nearest float.  (The
\* rounding of the product, finer by the width of the mantissa, is left
\* out.)
LerpUlp(self, other, num, den) ==
  RoundNearestEven(self * den + (other - self) * num, den)

\* Scalar::update on such a Scalar.
ScalarUpdateUlp(s, num, den) == [s EXCEPT !.value = LerpUlp(s.value, s.tv, num, den)]

\* Scalar::new as it would be if a new scalar started at 0 and was left to
\* move to its value.
ScalarNewFromZero(e) == [value |-> 0, tv |-> e]

\* Scalar::new
ScalarNew(e) == [value |-> e, tv |-> e]

\* Scalar::update with e = num/den
ScalarUpdate(s, num, den) == [s EXCEPT !.value = Lerp(s.value, s.tv, num, den)]

\* Scalar::set_update
ScalarSetUpdate(s, e, num, den) ==
  ScalarUpdate([s EXCEPT !.tv = e], num, den)

\* Angles are whole degrees; cos and sin come from a table scaled by 10000,
\* and atan2 answers with the table's angle closest in direction.
AngleSet == {-179, -135, -90, -45, 0, 45, 90, 135, 179, 180}

Cos10k(a) ==
  CASE a = 0 -> 10000
    [] a \in {45, -45} -> 7071
    [] a \in {90, -90} -> 0
    [] a \in {135, -135} -> -7071
    [] a \in {179, -179} -> -9998
    [] a = 180 -> -10000

Sin10k(a) ==
  CASE a \in {0, 180} -> 0
    [] a = 45 -> 7071
    [] a = -45 -> -7071
    [] a = 90 -> 10000
    [] a = -90 -> -10000
    [] a = 135 -> 7071
    [] a = -135 -> -7071
    [] a = 179 -> 175
    [] a = -179 -> -175

Atan2(y, x) ==
  IF x = 0 /\ y = 0 THEN 0
  ELSE LET dot(c) == (Cos10k(c) \div 10) * (x \div 10) + (Sin10k(c) \div 10) * (y \div 10)
       IN CHOOSE c \in AngleSet : \A o \in AngleSet :
            dot(c) > dot(o) \/ (dot(c) = dot(o) /\ c >= o)

\* lerp_angle as it would be if it interpolated the two numbers.
lerp_angle_linear(a, b, num, den) == Lerp(a, b, num, den)

\* lerp_angle with t = num/den.  The interpolated vector is kept scaled by
\* den: only its direction matters to atan2.
lerp_angle(a, b, num, den) ==
  LET resx == Cos10k(a) * den + (Cos10k(b) - Cos10k(a)) * num
      resy == Sin10k(a) * den + (Sin10k(b) - Sin10k(a)) * num
  IN Atan2(resy \div den, resx \div den)

-----------------------------------------------------------------------------
(***************************************************************************)
(* SESSION STATE (the World of src/src/engine.rs as built by start() in    *)
(* src/src/lib.rs, and the variables the callbacks close over).            *)
(***************************************************************************)
VARIABLES
  yourself,        \* world.yourself: the locally controlled tank
  state,           \* world.state: lifecycle, chat box, level, death animation
  input,           \* world.input: keys held, mouse button, mouse position
  size,            \* world.size: smoothed arena size
  entities,        \* world.entities: the Entity Store, keyed by network id
  mockups,         \* world.mockups: <<>> for None, <<list>> for Some(list)
  leaderboard,     \* world.leaderboard.entries
  mouse_position,  \* the Cell written by the mousemove callback
  delta,           \* the frame closure's smoothed frame delta (fixed point)
  ws_ready,        \* WebSocket.readyState: 0 connecting, 1 open, 3 closed
  sent,            \* the buffers handed to WebSocket.send by the last event
  panicked,        \* a callback panicked while holding the World's RefMut
  probe,           \* input and result of the last codec operation applied
  event            \* the callback that ran last, with its argument

vars == <<yourself, state, input, size, entities, mockups, leaderboard,
          mouse_position, delta, ws_ready, sent, panicked, probe, event>>

world == <<yourself, state, input, size, entities, mockups, leaderboard>>

Vec2(x, y) == [x |-> x, y |-> y]

\* engine::Input::new
InputNew ==
  [W |-> FALSE, A |-> FALSE, S |-> FALSE, D |-> FALSE, mouse_down |-> FALSE,
   mouse_position |-> Vec2(0, 0)]

\* engine::GameState::new.  GameState is not in the source files given (the
\* engine.rs at hand predates it); its fields are those lib.rs uses and its
\* initial lifecycle state is the specification's (section 4.5).
GameStateNew ==
  [player_state |-> <<"Alive">>,
   chat_open |-> FALSE,
   level |-> ScalarNew(0),
   death_animation_completion |-> ScalarNew(0)]

\* GameState::is_dead, as lib.rs uses it.
is_dead(st) == st.player_state[1] = "Dead"

Dead(time_alive) == <<"Dead", time_alive>>

Alive == <<"Alive">>

\* The World that start() builds.
YourselfInit ==
  [kind |-> "Tank",
   id |-> U32(0),
   name |-> <<>>,
   mockup |-> 0,
   position |-> Vec2(0, 0),
   net_position |-> Vec2(0, 0),
   velocity |-> Vec2(0, 0),
   rotation |-> 0,
   net_rotation |-> 0,
   yourself |-> TRUE,
   health |-> ScalarNew(Unit),
   radius |-> 50,
   damaged |-> FALSE,
   opacity |-> ScalarNew(Unit),
   message |-> <<>>]

NoProbe == [op |-> "none"]

\* The state when start() returns.
SessionInit ==
  /\ yourself = YourselfInit
  /\ state = GameStateNew
  /\ input = InputNew
  /\ size = ScalarNew(1)
  /\ entities = EmptyMap
  /\ mockups = <<>>
  /\ leaderboard = <<>>
  /\ mouse_position = Vec2(0, 0)
  /\ delta = Unit
  /\ ws_ready = 0
  /\ sent = <<>>
  /\ panicked = FALSE

Ran(op, arg) == [op |-> op, arg |-> arg]

Init == SessionInit /\ probe = NoProbe /\ event = Ran("start", <<>>)

-----------------------------------------------------------------------------
(***************************************************************************)
(* CENSUS RECONCILER (the Packet::Census arm of onmessage_callback).       *)
(***************************************************************************)

\* entity.opacity.value < 0.05
BelowFade(e) == 100 * e.opacity.value < 5 * Unit

\* FadeOut as it would be if a Census only set the targets and left the
\* rendered values to the frame ticks.
FadeOutTargetOnly(e) ==
  IF e.kind = "Bullet"
  THEN [e EXCEPT !.opacity = [@ EXCEPT !.tv = 0],
                 !.scale = [@ EXCEPT !.tv = 2 * Unit]]
  ELSE [e EXCEPT !.opacity = [@ EXCEPT !.tv = 0]]

\* FadeOut as it would be without the bullets' growth.
FadeOutFlat(e) == [e EXCEPT !.opacity = ScalarSetUpdate(@, 0, 1, 10)]

\* FadeOut as it would be if each Census moved the targets further.
FadeOutGrowing(e) ==
  IF e.kind = "Bullet"
  THEN [e EXCEPT !.opacity = ScalarSetUpdate(@, 0, 1, 10),
                 !.scale = ScalarSetUpdate(@, e.scale.tv + Unit, 1, 10)]
  ELSE [e EXCEPT !.opacity = ScalarSetUpdate(@, e.opacity.tv - Unit, 1, 10)]

\* The mutation the retain closure applies to an entity it keeps although
\* its id is missing from the Census.
FadeOut(e) ==
  IF e.kind = "Bullet"
  THEN [e EXCEPT !.opacity = ScalarSetUpdate(@, 0, 1, 10),
                 !.scale = ScalarSetUpdate(@, 2 * Unit, 1, 10)]
  ELSE [e EXCEPT !.opacity = ScalarSetUpdate(@, 0, 1, 10)]

\* CensusRetain as it would be if the opacity threshold applied only to
\* entries missing from the Census.
CensusRetainListed(ents, ce) ==
  [k \in {i \in DOMAIN ents : i \in DOMAIN ce \/ ~BelowFade(ents[i])} |->
     IF k \in DOMAIN ce THEN ents[k] ELSE FadeOut(ents[k])]

\* CensusRetain as it would be if an entry missing from the Census were
\* dropped at once instead of being faded out.
CensusRetainEvicting(ents, ce) ==
  [k \in {i \in DOMAIN ents : ~BelowFade(ents[i]) /\ i \in DOMAIN ce} |-> ents[k]]

\* world.entities.retain(...): the purge pass.
CensusRetain(ents, ce) ==
  [k \in {i \in DOMAIN ents : ~BelowFade(ents[i])} |->
     IF k \in DOMAIN ce THEN ents[k] ELSE FadeOut(ents[k])]

\* i16 velocity as f64 divided by n (quotient toward zero at the resolution).
Quot(v, n) == IF v >= 0 THEN v \div n ELSE -((-v) \div n)

\* CensusUpdateYourself as it would be if the health were compared after
\* the new target is written: the comparison is then never true.
CensusUpdateYourselfLate(you, t) ==
  IF t.kind = "Tank"
  THEN [you EXCEPT !.net_position = Vec2(t.position.x, t.position.y),
                   !.mockup = t.mockup,
                   !.radius = t.radius,
                   !.health = [@ EXCEPT !.tv = t.health],
                   !.message = t.message]
  ELSE you

\* CensusUpdateYourself as it would be if position and radius were taken
\* from the entry whatever its kind.
CensusUpdateYourselfAnyKind(you, t) ==
  IF t.kind = "Tank"
  THEN [you EXCEPT !.net_position = Vec2(t.position.x, t.position.y),
                   !.mockup = t.mockup,
                   !.radius = t.radius,
                   !.damaged = IF you.health.tv > t.health THEN TRUE ELSE @,
                   !.health = [@ EXCEPT !.tv = t.health],
                   !.message = t.message]
  ELSE [you EXCEPT !.net_position = Vec2(t.position.x, t.position.y),
                   !.radius = t.radius]

\* The Census entry whose id is yourself_id.
CensusUpdateYourself(you, t) ==
  IF t.kind = "Tank"
  THEN [you EXCEPT !.net_position = Vec2(t.position.x, t.position.y),
                   !.mockup = t.mockup,
                   !.radius = t.radius,
                   !.damaged = IF you.health.tv > t.health THEN TRUE ELSE @,
                   !.health = [@ EXCEPT !.tv = t.health],
                   !.message = t.message]
  ELSE you

\* CensusUpdateEntity as it would be if an update moved the entity to the
\* snapshot's position at once.
CensusUpdateEntitySnapping(e, c) ==
  [e EXCEPT !.net_position = Vec2(c.position.x, c.position.y),
            !.position = Vec2(c.position.x, c.position.y)]

\* CensusUpdateEntity as it would be if an update made the entity opaque
\* again.
CensusUpdateEntityReviving(e, c) ==
  [e EXCEPT !.net_position = Vec2(c.position.x, c.position.y),
            !.opacity = [@ EXCEPT !.tv = Unit]]

\* A foreign entry whose id is in the store.
CensusUpdateEntity(e, c) ==
  CASE c.kind = "Tank" /\ e.kind = "Tank" ->
         [e EXCEPT !.net_position = Vec2(c.position.x, c.position.y),
                   !.net_rotation = c.rotation,
                   !.mockup = c.mockup,
                   !.velocity = IF ~e.yourself
                                THEN Vec2(Quot(c.velocity.x, 2), Quot(c.velocity.y, 2))
                                ELSE @,
                   !.damaged = IF c.health < e.health.tv THEN TRUE ELSE @,
                   !.health = [@ EXCEPT !.tv = c.health],
                   !.radius = c.radius,
                   !.message = c.message]
    [] c.kind = "Shape" /\ e.kind = "Shape" ->
         [e EXCEPT !.net_position = Vec2(c.position.x, c.position.y),
                   !.damaged = IF c.health < e.health THEN TRUE ELSE @,
                   !.needs_redraw = IF c.health < e.health THEN TRUE ELSE @,
                   !.health = c.health]
    [] c.kind = "Bullet" /\ e.kind = "Bullet" ->
         [e EXCEPT !.net_position = Vec2(c.position.x, c.position.y),
                   !.velocity = Vec2(Quot(c.velocity.x, 3), Quot(c.velocity.y, 3))]
    [] OTHER -> e

\* A foreign entry whose id is not in the store.
CensusInsertEntity(c) ==
  CASE c.kind = "Tank" ->
         [kind |-> "Tank",
          id |-> c.id,
          name |-> c.name,
          position |-> Vec2(c.position.x, c.position.y),
          net_position |-> Vec2(c.position.x, c.position.y),
          velocity |-> Vec2(Quot(c.velocity.x, 4), Quot(c.velocity.y, 4)),
          rotation |-> c.rotation,
          yourself |-> FALSE,
          net_rotation |-> c.rotation,
          mockup |-> c.mockup,
          radius |-> c.radius,
          health |-> ScalarNew(c.health),
          damaged |-> FALSE,
          opacity |-> ScalarNew(Unit),
          message |-> c.message]
    [] c.kind = "Shape" ->
         [kind |-> "Shape",
          id |-> c.id,
          position |-> Vec2(c.position.x, c.position.y),
          net_position |-> Vec2(c.position.x, c.position.y),
          velocity |-> Vec2(0, 0),
          health |-> c.health,
          damaged |-> FALSE,
          opacity |-> ScalarNew(Unit),
          needs_redraw |-> TRUE,
          radius |-> c.radius]
    [] c.kind = "Bullet" ->
         [kind |-> "Bullet",
          id |-> c.id,
          position |-> Vec2(c.position.x, c.position.y),
          net_position |-> Vec2(c.position.x, c.position.y),
          radius |-> c.radius,
          velocity |-> Vec2(Quot(c.velocity.x, 3), Quot(c.velocity.y, 3)),
          opacity |-> ScalarNew(Unit),
          scale |-> ScalarNew(Unit)]

\* CensusUpdateStore as it would be without the branch for yourself_id:
\* the local tank's entry goes to the store like any other.
CensusUpdateStoreAll(ents, ce, yourself_id) ==
  [k \in DOMAIN ents \cup DOMAIN ce |->
     IF k \notin DOMAIN ce THEN ents[k]
     ELSE IF k \in DOMAIN ents THEN CensusUpdateEntity(ents[k], ce[k])
     ELSE CensusInsertEntity(ce[k])]

\* CensusUpdateStore as it would be without the insert branches: entries
\* are updated, ids the store does not know are skipped.
CensusUpdateStoreKnownOnly(ents, ce, yourself_id) ==
  [k \in DOMAIN ents |->
     IF k \in DOMAIN ce \ {yourself_id}
     THEN CensusUpdateEntity(ents[k], ce[k]) ELSE ents[k]]

\* The update/insert pass over the Census entries other than yourself_id.
\* Each entry touches only the store entry of its own id, so the HashMap's
\* iteration order does not matter.
CensusUpdateStore(ents, ce, yourself_id) ==
  LET foreign == DOMAIN ce \ {yourself_id}
  IN [k \in DOMAIN ents \cup foreign |->
        IF k \notin foreign THEN ents[k]
        ELSE IF k \in DOMAIN ents THEN CensusUpdateEntity(ents[k], ce[k])
        ELSE CensusInsertEntity(ce[k])]

\* The part of the World the Census arm reads and writes.
CensusWorld == [yourself |-> yourself, state |-> state, size |-> size,
                entities |-> entities]

\* CensusArm as it would be if a Census that lists the local tank brought a
\* dead player back to life.
CensusArmCorrecting(w, census) ==
  LET yourself_id == w.yourself.id
      listed == yourself_id \in DOMAIN census.entities
  IN [yourself |-> IF listed
                   THEN CensusUpdateYourself(w.yourself, census.entities[yourself_id])
                   ELSE w.yourself,
      state |-> [w.state EXCEPT !.level = [@ EXCEPT !.tv = census.level],
                                !.player_state = IF listed THEN Alive ELSE @],
      size |-> [w.size EXCEPT !.tv = census.arena_size],
      entities |-> CensusUpdateStore(CensusRetain(w.entities, census.entities),
                                     census.entities, yourself_id)]

\* The whole Packet::Census arm, once the Census is decoded, as a function
\* of the World it starts from.
CensusArm(w, census) ==
  LET yourself_id == w.yourself.id
  IN [yourself |-> IF yourself_id \in DOMAIN census.entities
                   THEN CensusUpdateYourself(w.yourself, census.entities[yourself_id])
                   ELSE w.yourself,
      state |-> [w.state EXCEPT !.level = [@ EXCEPT !.tv = census.level]],
      size |-> [w.size EXCEPT !.tv = census.arena_size],
      entities |-> CensusUpdateStore(CensusRetain(w.entities, census.entities),
                                     census.entities, yourself_id)]

ApplyCensus(census) ==
  LET w == CensusArm(CensusWorld, census)
  IN /\ size' = w.size
     /\ state' = w.state
     /\ entities' = w.entities
     /\ yourself' = w.yourself
     /\ UNCHANGED <<input, mockups, leaderboard>>

\* A panic inside a callback: the wasm call traps, the RefMut on the World
\* is never dropped, and nothing the callback had not yet done happens.
Panic == panicked' = TRUE /\ UNCHANGED world

\* Packet::Handshake arm
ApplyHandshake(res) ==
  /\ mockups' = <<res.mockups>>
  /\ yourself' = [yourself EXCEPT !.id = res.id]
  /\ UNCHANGED <<state, input, size, entities, leaderboard>>

\* ApplyDeath as it would be if the Death message were only logged.
ApplyDeathIgnored(res) == UNCHANGED world

\* ApplyDeath as it would be if the Death arm started the death animation
\* itself instead of leaving it to the next frame tick.
ApplyDeathAnimating(res) ==
  /\ state' = [state EXCEPT
       !.player_state = Dead(res.time_alive),
       !.death_animation_completion = [@ EXCEPT !.tv = Unit]]
  /\ UNCHANGED <<yourself, input, size, entities, mockups, leaderboard>>

\* Packet::Death arm
ApplyDeath(res) ==
  /\ state' = [state EXCEPT !.player_state = Dead(res.time_alive)]
  /\ UNCHANGED <<yourself, input, size, entities, mockups, leaderboard>>

\* Packet::Leaderboard arm
ApplyLeaderboard(res) ==
  /\ leaderboard' = res.entries
  /\ UNCHANGED <<yourself, state, input, size, entities, mockups>>

\* onmessage_callback on a binary message.  The transport delivers messages
\* only while the socket is open.
OnMessage(buf) ==
  /\ ws_ready = 1
  /\ sent' = <<>>
  /\ UNCHANGED <<mouse_position, delta, ws_ready, probe>>
  /\ IF panicked \/ Underrun(buf, 0, 1) THEN Panic
     ELSE LET pk == PacketFromU8(get_u8(buf, 0)) IN
       CASE pk = PacketCensus ->
              LET census == CensusDecode(buf, 1) IN
              IF census.ok THEN ApplyCensus(census) /\ UNCHANGED panicked
              ELSE Panic
         [] pk = PacketHandshake ->
              LET res == HandshakePacketDecode(buf, 1) IN
              IF res.ok THEN ApplyHandshake(res) /\ UNCHANGED panicked
              ELSE Panic
         [] pk = PacketDeath ->
              LET res == DeathPacketDecode(buf, 1) IN
              IF res.ok THEN ApplyDeath(res) /\ UNCHANGED panicked
              ELSE Panic
         [] pk = PacketLeaderboard ->
              LET res == LeaderboardPacketDecode(buf, 1) IN
              IF res.ok THEN ApplyLeaderboard(res) /\ UNCHANGED panicked
              ELSE Panic
         [] OTHER -> UNCHANGED <<world, panicked>>

-----------------------------------------------------------------------------
(***************************************************************************)
(* FRAME TICK (the requestAnimationFrame closure of start(), and           *)
(* World::draw_entities with the draw methods of src/src/engine.rs).       *)
(***************************************************************************)

LerpVec(p, q, num, den) == Vec2(Lerp(p.x, q.x, num, den), Lerp(p.y, q.y, num, den))

\* mockups[self.mockup as usize] is in range (or the list is not set).
MockupInRange(t) == mockups = <<>> \/ t.mockup < Len(mockups[1])

\* Tank::draw
TankDraw(t) ==
  LET p == LerpVec(t.position, t.net_position, 5, 100)
  IN [t EXCEPT !.position = Vec2(p.x + t.velocity.x, p.y + t.velocity.y),
               !.rotation = IF ~t.yourself
                            THEN lerp_angle(t.rotation, t.net_rotation, 3, 10)
                            ELSE @,
               !.opacity = ScalarUpdate(@, 2, 10),
               !.health = ScalarUpdate(@, 2, 10),
               !.velocity = Vec2(Lerp(t.velocity.x, 0, 2, 10),
                                 Lerp(t.velocity.y, 0, 2, 10)),
               !.damaged = FALSE]

\* Shape::draw
ShapeDraw(e) ==
  [e EXCEPT !.position = LerpVec(e.position, e.net_position, 5, 100),
            !.opacity = ScalarUpdate(@, 1, 10),
            !.needs_redraw = IF e.needs_redraw THEN e.damaged ELSE @,
            !.damaged = IF e.needs_redraw THEN FALSE ELSE @]

\* Bullet::draw
BulletDraw(e) ==
  LET p == LerpVec(e.position, e.net_position, 5, 100)
  IN [e EXCEPT !.position = Vec2(p.x + e.velocity.x, p.y + e.velocity.y),
               !.opacity = ScalarUpdate(@, 3, 10),
               !.scale = ScalarUpdate(@, 3, 10)]

EntityDraw(e) ==
  CASE e.kind = "Tank" -> TankDraw(e)
    [] e.kind = "Shape" -> ShapeDraw(e)
    [] e.kind = "Bullet" -> BulletDraw(e)

\* Some Tank::draw of this frame indexes the mockup list out of range.
DrawPanics ==
  \/ ~MockupInRange(yourself)
  \/ \E k \in DOMAIN entities :
       entities[k].kind = "Tank" /\ ~MockupInRange(entities[k])

\* The velocity the held keys add to the local tank.
KeyVelocity(v) ==
  Vec2(IF input.A THEN v.x - 1 ELSE IF input.D THEN v.x + 1 ELSE v.x,
       IF input.W THEN v.y - 1 ELSE IF input.S THEN v.y + 1 ELSE v.y)

\* FrameDelta as it would be without the reset after a long gap.
FrameDeltaNoReset(gap) ==
  LET d1 == Lerp((gap * Unit) \div 16, delta, 7, 10)
  IN IF d1 < Unit THEN Unit ELSE d1

\* The smoothed frame delta for a gap of `gap` ms since the last tick.
FrameDelta(gap) ==
  LET d1 == Lerp((gap * Unit) \div 16, delta, 7, 10)
      d2 == IF d1 < Unit THEN Unit ELSE d1
  IN IF gap > 500 THEN Unit ELSE d2

\* FrameSend as it would be if the open chat box did not mask the input.
FrameSendTyping(inp) ==
  IF ws_ready = 1 /\ ~is_dead(state) THEN <<InputPacketEncode(inp)>> ELSE <<>>

\* FrameSend as it would be if a dead player's tick sent the neutral input.
FrameSendNeutral(inp) ==
  IF ws_ready = 1
  THEN IF ~state.chat_open /\ ~is_dead(state) THEN <<InputPacketEncode(inp)>>
       ELSE <<InputPacketEncode(InputNew)>>
  ELSE <<>>

\* The Input packet the tick sends, if any.
FrameSend(inp) ==
  IF ws_ready = 1 /\ ~is_dead(state)
  THEN IF ~state.chat_open THEN <<InputPacketEncode(inp)>>
       ELSE <<InputPacketEncode(InputNew)>>
  ELSE <<>>

\* The death screen part of the tick, run only when the mockups are set.
FrameDeathScreen(st, d) ==
  LET dac == ScalarUpdate(st.death_animation_completion, 2 * d, 10 * Unit)
  IN [st EXCEPT !.death_animation_completion =
        [dac EXCEPT !.tv = IF is_dead(st) THEN Unit ELSE 0]]

\* The world point under the cursor: the page position of the Cell, scaled
\* by the view (the model's view has scale 1) and shifted by camera minus
\* screen centre, which the renderer owns and the tick receives as `shift`.
MouseToWorld(cell, shift) == Vec2(cell.x + shift.x, cell.y + shift.y)

\* The angle from the local tank to the aimed point.
AimAngle(pos, aim) == Atan2(1000 * (aim.y - pos.y), 1000 * (aim.x - pos.x))

\* Frame as it would be if the keys steered the local tank whether or not
\* the player is dead.
FrameSteeringDead(gap, shift) ==
  /\ UNCHANGED <<mockups, leaderboard, mouse_position, ws_ready, probe>>
  /\ IF panicked
     THEN Panic /\ UNCHANGED delta /\ sent' = <<>>
     ELSE
       LET d == FrameDelta(gap)
           moving == ~state.chat_open
           you1 == IF moving
                   THEN [yourself EXCEPT !.velocity = KeyVelocity(@)]
                   ELSE yourself
           inp == [input EXCEPT !.mouse_position = MouseToWorld(mouse_position, shift)]
           drawn == TankDraw(you1)
           you2 == [drawn EXCEPT !.rotation = AimAngle(drawn.position, inp.mouse_position)]
           you3 == [you2 EXCEPT !.opacity = ScalarUpdate(@, 5 * d, 10 * Unit)]
           st1 == [state EXCEPT !.level = ScalarUpdate(@, 5 * d, 100 * Unit)]
       IN /\ delta' = d
          /\ IF DrawPanics
             THEN Panic /\ sent' = <<>>
             ELSE /\ input' = inp
                  /\ size' = ScalarUpdate(size, 75, 1000)
                  /\ entities' = [k \in DOMAIN entities |-> EntityDraw(entities[k])]
                  /\ sent' = FrameSend(inp)
                  /\ IF mockups # <<>>
                     THEN /\ state' = FrameDeathScreen(st1, d)
                          /\ yourself' = [you3 EXCEPT !.opacity =
                               [@ EXCEPT !.tv = IF is_dead(state) THEN 0 ELSE Unit]]
                     ELSE /\ state' = st1
                          /\ yourself' = you3
                  /\ UNCHANGED panicked

\* One animation frame, `gap` ms after the previous one.  A panic in a
\* draw leaves the World borrowed; what the tick had changed before it is
\* never read again and is left out.
Frame(gap, shift) ==
  /\ UNCHANGED <<mockups, leaderboard, mouse_position, ws_ready, probe>>
  /\ IF panicked
     THEN Panic /\ UNCHANGED delta /\ sent' = <<>>
     ELSE
       LET d == FrameDelta(gap)
           moving == ~state.chat_open /\ ~is_dead(state)
           you1 == IF moving
                   THEN [yourself EXCEPT !.velocity = KeyVelocity(@)]
                   ELSE yourself
           inp == [input EXCEPT !.mouse_position = MouseToWorld(mouse_position, shift)]
           drawn == TankDraw(you1)
           you2 == [drawn EXCEPT !.rotation = AimAngle(drawn.position, inp.mouse_position)]
           you3 == [you2 EXCEPT !.opacity = ScalarUpdate(@, 5 * d, 10 * Unit)]
           st1 == [state EXCEPT !.level = ScalarUpdate(@, 5 * d, 100 * Unit)]
       IN /\ delta' = d
          /\ IF DrawPanics
             THEN Panic /\ sent' = <<>>
             ELSE /\ input' = inp
                  /\ size' = ScalarUpdate(size, 75, 1000)
                  /\ entities' = [k \in DOMAIN entities |-> EntityDraw(entities[k])]
                  /\ sent' = FrameSend(inp)
                  /\ IF mockups # <<>>
                     THEN /\ state' = FrameDeathScreen(st1, d)
                          /\ yourself' = [you3 EXCEPT !.opacity =
                               [@ EXCEPT !.tv = IF is_dead(state) THEN 0 ELSE Unit]]
                     ELSE /\ state' = st1
                          /\ yourself' = you3
                  /\ UNCHANGED panicked

-----------------------------------------------------------------------------
(***************************************************************************)
(* KEY, MOUSE AND SOCKET CALLBACKS (src/src/lib.rs).                       *)
(***************************************************************************)
KeyW == 87
KeyA == 65
KeyS == 83
KeyD == 68
KeyEnter == 13
KeyEscape == 27

\* OnKeyDown as it would be if the key handler steered the local tank itself
\* instead of leaving the movement to the next frame tick.
OnKeyDownSteering(key) ==
  /\ sent' = <<>>
  /\ UNCHANGED <<state, size, entities, mockups, leaderboard,
                 mouse_position, delta, ws_ready, probe, panicked>>
  /\ IF panicked THEN UNCHANGED <<input, yourself>>
     ELSE /\ input' = IF key = KeyW THEN [input EXCEPT !.W = TRUE] ELSE input
          /\ yourself' = IF key = KeyW
                         THEN [yourself EXCEPT !.velocity = Vec2(0, -Unit)]
                         ELSE yourself

\* keydown closure
OnKeyDown(key) ==
  /\ sent' = <<>>
  /\ UNCHANGED <<yourself, state, size, entities, mockups, leaderboard,
                 mouse_position, delta, ws_ready, probe>>
  /\ IF panicked THEN UNCHANGED <<input, panicked>>
     ELSE /\ UNCHANGED panicked
          /\ input' = CASE key = KeyW -> [input EXCEPT !.W = TRUE]
                        [] key = KeyA -> [input EXCEPT !.A = TRUE]
                        [] key = KeyS -> [input EXCEPT !.S = TRUE]
                        [] key = KeyD -> [input EXCEPT !.D = TRUE]
                        [] OTHER -> input

\* KeyUpEnter as it would be if the respawn waited for the server.
KeyUpEnterAwaiting(chat_value) ==
  IF is_dead(state)
  THEN /\ UNCHANGED <<state, yourself>>
       /\ sent' = <<RespawnPacketEncode>>
  ELSE /\ yourself' = yourself
       /\ IF state.chat_open
          THEN /\ sent' = <<MessagePacketEncode(chat_value)>>
               /\ state' = [state EXCEPT !.chat_open = FALSE]
          ELSE /\ sent' = <<>>
               /\ state' = [state EXCEPT !.chat_open = TRUE]

\* The Enter arm of the keyup closure; chat_value is the chat box's text.
KeyUpEnter(chat_value) ==
  IF is_dead(state)
  THEN /\ state' = [state EXCEPT
            !.player_state = Alive,
            !.death_animation_completion = [@ EXCEPT !.tv = 0]]
       /\ yourself' = [yourself EXCEPT !.opacity = [@ EXCEPT !.tv = Unit]]
       /\ sent' = <<RespawnPacketEncode>>
  ELSE /\ yourself' = yourself
       /\ IF state.chat_open
          THEN /\ sent' = <<MessagePacketEncode(chat_value)>>
               /\ state' = [state EXCEPT !.chat_open = FALSE]
          ELSE /\ sent' = <<>>
               /\ state' = [state EXCEPT !.chat_open = TRUE]

\* keyup closure
OnKeyUp(key, chat_value) ==
  /\ UNCHANGED <<size, entities, mockups, leaderboard, mouse_position, delta,
                 ws_ready, probe, panicked>>
  /\ IF panicked THEN UNCHANGED <<input, state, yourself>> /\ sent' = <<>>
     ELSE
       CASE key = KeyW -> input' = [input EXCEPT !.W = FALSE]
                          /\ sent' = <<>> /\ UNCHANGED <<state, yourself>>
         [] key = KeyA -> input' = [input EXCEPT !.A = FALSE]
                          /\ sent' = <<>> /\ UNCHANGED <<state, yourself>>
         [] key = KeyS -> input' = [input EXCEPT !.S = FALSE]
                          /\ sent' = <<>> /\ UNCHANGED <<state, yourself>>
         [] key = KeyD -> input' = [input EXCEPT !.D = FALSE]
                          /\ sent' = <<>> /\ UNCHANGED <<state, yourself>>
         [] key = KeyEnter -> KeyUpEnter(chat_value) /\ UNCHANGED input
         [] key = KeyEscape -> state' = [state EXCEPT !.chat_open = FALSE]
                               /\ sent' = <<>> /\ UNCHANGED <<input, yourself>>
         [] OTHER -> sent' = <<>> /\ UNCHANGED <<input, state, yourself>>

\* OnMouseButton as it would be if the closure reached the World without
\* going through the RefCell's borrow flag.
OnMouseButtonUnchecked(down) ==
  /\ sent' = <<>>
  /\ input' = [input EXCEPT !.mouse_down = down]
  /\ UNCHANGED <<yourself, state, size, entities, mockups, leaderboard,
                 mouse_position, delta, ws_ready, probe, panicked>>

\* mousedown and mouseup closures
OnMouseButton(down) ==
  /\ sent' = <<>>
  /\ input' = IF panicked THEN input ELSE [input EXCEPT !.mouse_down = down]
  /\ UNCHANGED <<yourself, state, size, entities, mockups, leaderboard,
                 mouse_position, delta, ws_ready, probe, panicked>>

\* mousemove closure: writes the Cell only, and borrows nothing.
OnMouseMove(pos) ==
  /\ sent' = <<>>
  /\ mouse_position' = pos
  /\ UNCHANGED <<world, delta, ws_ready, probe, panicked>>

\* The socket opens: onopen_callback sends the Init packet.
OnOpen(name) ==
  /\ ws_ready = 0
  /\ ws_ready' = 1
  /\ sent' = <<InitPacketEncode(name)>>
  /\ UNCHANGED <<world, mouse_position, delta, probe, panicked>>

\* The transport closes the socket (no callback is installed for it).
WsClose ==
  /\ ws_ready = 1
  /\ ws_ready' = 3
  /\ sent' = <<>>
  /\ UNCHANGED <<world, mouse_position, delta, probe, panicked>>

-----------------------------------------------------------------------------
(***************************************************************************)
(* THE SERVER'S SIDE OF THE WIRE: the buffers a server sends, laid out    *)
(* as the decoders' field lists say.                                       *)
(***************************************************************************)
I16(v) == put_16(<<>>, v)
U16(v) == put_u16(<<>>, v)
F32(k) == put_float(<<>>, k)
Utf8(str) == put_utf8(<<>>, str)

\* One Census record.  A record of an unknown kind is its kind byte, its
\* id and whatever fields that kind carries (payload).
WireEntity(e) ==
  CASE e.kind = "Tank" ->
         <<EntityTypeTank>> \o e.id \o I16(e.position.x) \o I16(e.position.y)
           \o F32(e.rotation) \o I16(e.velocity.x) \o I16(e.velocity.y)
           \o <<e.mockup>> \o F32(e.health) \o U16(e.radius)
           \o Utf8(e.name) \o Utf8(e.message)
    [] e.kind = "Shape" ->
         <<EntityTypeShape>> \o e.id \o I16(e.position.x) \o I16(e.position.y)
           \o F32(e.health) \o U16(e.radius)
    [] e.kind = "Bullet" ->
         <<EntityTypeBullet>> \o e.id \o I16(e.position.x) \o I16(e.position.y)
           \o U16(e.radius) \o I16(e.velocity.x) \o I16(e.velocity.y) \o e.owner
    [] OTHER -> <<e.tag>> \o e.id \o e.payload

RECURSIVE WireEntities(_)
WireEntities(es) ==
  IF es = <<>> THEN <<>> ELSE WireEntity(Head(es)) \o WireEntities(Tail(es))

\* A Census message: c.records is the sequence of records sent.
WireCensus(c) ==
  <<PacketCensus>> \o U16(Len(c.records)) \o U16(c.arena_size) \o F32(c.level)
    \o WireEntities(c.records)

WireDeath(time_alive) == <<PacketDeath>> \o time_alive

RECURSIVE WireBarrels(_)
WireBarrels(bs) ==
  IF bs = <<>> THEN <<>>
  ELSE F32(Head(bs).width) \o F32(Head(bs).length) \o F32(Head(bs).angle)
         \o WireBarrels(Tail(bs))

RECURSIVE WireMockups(_)
WireMockups(ms) ==
  IF ms = <<>> THEN <<>>
  ELSE Utf8(Head(ms).name) \o <<Head(ms).fov, Len(Head(ms).barrels)>>
         \o WireBarrels(Head(ms).barrels) \o WireMockups(Tail(ms))

WireHandshake(id, ms) == <<PacketHandshake>> \o id \o <<Len(ms)>> \o WireMockups(ms)

RECURSIVE WireLeaderboardEntries(_)
WireLeaderboardEntries(es) ==
  IF es = <<>> THEN <<>>
  ELSE Utf8(Head(es).name) \o F32(Head(es).level) \o <<Head(es).mockup>>
         \o WireLeaderboardEntries(Tail(es))

WireLeaderboard(es) == <<PacketLeaderboard, Len(es)>> \o WireLeaderboardEntries(es)

\* Protocol entities as the server describes them.
PTank(id, pos, rotation, vel, mockup, health, radius, name, message) ==
  [kind |-> "Tank", id |-> id, position |-> pos, rotation |-> rotation,
   velocity |-> vel, mockup |-> mockup, health |-> health, radius |-> radius,
   name |-> name, message |-> message]

PShape(id, pos, health, radius) ==
  [kind |-> "Shape", id |-> id, position |-> pos, health |-> health,
   radius |-> radius]

PBullet(id, pos, radius, vel, owner) ==
  [kind |-> "Bullet", id |-> id, position |-> pos, radius |-> radius,
   velocity |-> vel, owner |-> owner]

PUnknown(tag, id, payload) ==
  [kind |-> "Unknown", tag |-> tag, id |-> id, payload |-> payload]

-----------------------------------------------------------------------------
(***************************************************************************)
(* CODEC SPECIFICATION: the encoders and decoders applied to inputs drawn  *)
(* by the initial state.                                                   *)
(***************************************************************************)

\* Longest Census (in records) the codec specification decodes.
MaxRecords == 3

NameX == <<88>>

CodecRecords ==
  { PTank(U32(7), Vec2(10, -5), 0, Vec2(0, 0), 0, 3, 50, NameX, <<>>),
    PTank(U32(7), Vec2(10, -5), 90, Vec2(2, -2), 1, -2, 50, NameX, <<104, 105>>),
    PShape(U32(1), Vec2(-3, 4), 2, 40),
    PBullet(U32(2), Vec2(6, 7), 10, Vec2(3, -3), U32(7)),
    PUnknown(9, U32(5), I16(10) \o I16(-5)),
    PUnknown(9, U32(5), <<>>) }

SeqsUpTo(S, n) == UNION { [1..k -> S] : k \in 0..n }

CodecCensuses ==
  { [arena_size |-> 1000, level |-> 10, records |-> rs] :
      rs \in SeqsUpTo(CodecRecords, MaxRecords) }

CodecInputs ==
  { [W |-> w, A |-> a, S |-> sk, D |-> dk, mouse_down |-> m, mouse_position |-> mp] :
      w \in BOOLEAN, a \in BOOLEAN, sk \in BOOLEAN, dk \in BOOLEAN, m \in BOOLEAN,
      mp \in {Vec2(0, 0), Vec2(3, -4)} }

CodecTexts == {<<>>, NameX, <<104, 105>>}

Todo(op, arg) == [op |-> op, arg |-> arg, done |-> FALSE, out |-> <<>>]

InitCodec ==
  /\ SessionInit
  /\ event = Ran("start", <<>>)
  /\ probe \in { Todo("census", c) : c \in CodecCensuses }
         \cup { Todo("input", i) : i \in CodecInputs }
         \cup { Todo("init", t) : t \in CodecTexts }
         \cup { Todo("message", t) : t \in CodecTexts }
         \cup { Todo("respawn", <<>>) }

Finish(out) == probe' = [probe EXCEPT !.done = TRUE, !.out = out]

Pending(op) == probe.op = op /\ ~probe.done

session == <<world, mouse_position, delta, ws_ready, sent, panicked, event>>

\* The dispatcher has read the discriminant; Census::decode starts at 1.
DoCensusDecode ==
  Pending("census") /\ Finish(CensusDecode(WireCensus(probe.arg), 1))
    /\ UNCHANGED session

DoInputEncode ==
  Pending("input") /\ Finish(InputPacketEncode(probe.arg)) /\ UNCHANGED session

DoInitEncode ==
  Pending("init") /\ Finish(InitPacketEncode(probe.arg)) /\ UNCHANGED session

DoMessageEncode ==
  Pending("message") /\ Finish(MessagePacketEncode(probe.arg)) /\ UNCHANGED session

DoRespawnEncode ==
  Pending("respawn") /\ Finish(RespawnPacketEncode) /\ UNCHANGED session

NextCodec ==
  \/ DoCensusDecode
  \/ DoInputEncode
  \/ DoInitEncode
  \/ DoMessageEncode
  \/ DoRespawnEncode

SpecCodec == InitCodec /\ [][NextCodec]_vars

-----------------------------------------------------------------------------
(***************************************************************************)
(* SESSION SPECIFICATION: the callbacks of start(), run in any order on    *)
(* inputs drawn from small sets.                                           *)
(***************************************************************************)
LocalId == U32(7)

Mockup1 == [name |-> <<66>>, fov |-> 20,
            barrels |-> <<[width |-> Unit, length |-> 2 * Unit, angle |-> 0]>>]

Handshake1 == WireHandshake(LocalId, <<Mockup1>>)

Death30 == WireDeath(F64(30))

Death45 == WireDeath(F64(45))

Leaderboard1 == WireLeaderboard(<<[name |-> NameX, level |-> 3 * Unit, mockup |-> 0]>>)

\* A first byte that is no Packet discriminant, before a payload.
UnknownMessage == <<13>> \o F64(30)

\* A Packet the client only ever sends.
InboundChat == put_utf8(<<PacketMessage>>, NameX)

LocalTank(health) ==
  PTank(LocalId, Vec2(0, 0), 0, Vec2(0, 0), 0, health, 50, NameX, <<>>)

Shape1 == PShape(U32(1), Vec2(0, 0), Unit, 20)

Bullet2 == PBullet(U32(2), Vec2(0, 0), 5, Vec2(3, 0), LocalId)

CensusOf(rs) == WireCensus([arena_size |-> 2, level |-> 1, records |-> rs])

CensusFull == CensusOf(<<LocalTank(Unit), Shape1, Bullet2>>)

CensusNoBullet == CensusOf(<<LocalTank(Unit - 1), Shape1>>)

CensusEmpty == CensusOf(<<>>)

CensusLocal == CensusOf(<<LocalTank(Unit)>>)

LifecycleMessages ==
  {Handshake1, Death30, Death45, Leaderboard1, UnknownMessage, InboundChat,
   CensusLocal}

StoreCensuses == {CensusFull, CensusNoBullet, CensusEmpty}

StoreMessages == StoreCensuses \cup {Handshake1, UnknownMessage}

SessionGaps == {16}

SessionTexts == {<<104, 105>>}

\* One callback runs, on an input of the given sets.
NextOn(msgs, keys, downs, mice, shifts) ==
  \/ \E name \in {NameX} : OnOpen(name) /\ event' = Ran("open", name)
  \/ WsClose /\ event' = Ran("close", <<>>)
  \/ \E buf \in msgs : OnMessage(buf) /\ event' = Ran("message", buf)
  \/ \E gap \in SessionGaps, shift \in shifts :
       Frame(gap, shift) /\ event' = Ran("frame", gap)
  \/ \E key \in keys : OnKeyDown(key) /\ event' = Ran("keydown", key)
  \/ \E key \in keys, text \in SessionTexts :
       OnKeyUp(key, text) /\ event' = Ran("keyup", key)
  \/ \E down \in downs : OnMouseButton(down) /\ event' = Ran("mouse", down)
  \/ \E pos \in mice : OnMouseMove(pos) /\ event' = Ran("mousemove", pos)

\* The player's session: connection, lifecycle, keys, mouse and chat.
Next ==
  NextOn(LifecycleMessages, {KeyW, KeyEnter, KeyEscape}, BOOLEAN, {Vec2(0, 0)},
         {Vec2(3, -4)})

Spec == Init /\ [][Next]_vars

\* A second Handshake, assigning another id and another mockup list.
Mockup2 == [name |-> <<67>>, fov |-> 30, barrels |-> <<>>]

Handshake2 == WireHandshake(U32(9), <<Mockup1, Mockup2>>)

\* A Death message and a Census that end before their last field.
DeathShort == <<PacketDeath, 30, 0>>

CensusShort == SubSeq(CensusFull, 1, Len(CensusFull) - 2)

\* A Census that reports ids 1 and 2 under other kinds than CensusFull.
Tank1 == PTank(U32(1), Vec2(8, -4), 90, Vec2(0, 0), 0, Unit - 1, 50, NameX, <<>>)

Shape2 == PShape(U32(2), Vec2(-4, 4), Unit, 20)

CensusKindSwap == CensusOf(<<LocalTank(Unit), Tank1, Shape2>>)

\* A Census that reports the local id as a Shape, next to a bullet.
ShapeLocal == PShape(LocalId, Vec2(4, 8), Unit, 20)

CensusLocalShape == CensusOf(<<ShapeLocal, Bullet2>>)

AdverseCensuses == {CensusFull, CensusKindSwap, CensusLocalShape, CensusShort}

AdverseMessages == AdverseCensuses \cup {Handshake1, Handshake2, DeathShort}

\* A server that breaks the protocol: truncated messages, a second
\* Handshake, ids that change kind.
NextAdverse == NextOn(AdverseMessages, {KeyW}, {TRUE}, {Vec2(0, 0)}, {Vec2(0, 0)})

SpecAdverse == Init /\ [][NextAdverse]_vars

\* The reconciler's session: Censuses over a populated Entity Store.
NextStore == NextOn(StoreMessages, {16}, {FALSE}, {Vec2(4, -4)}, {Vec2(0, 0)})

SpecStore == Init /\ [][NextStore]_vars

-----------------------------------------------------------------------------
(***************************************************************************)
(* PROPERTIES OF THE CODEC (checked under SpecCodec).                      *)
(***************************************************************************)
KnownKind(r) == r.kind \in {"Tank", "Shape", "Bullet"}

AllKnown(rs) == \A i \in DOMAIN rs : KnownKind(rs[i])

DistinctIds(rs) == \A i, j \in DOMAIN rs : i # j => rs[i].id # rs[j].id

\* A record as the decoder is to return it.
AsDecoded(r) ==
  IF r.kind = "Tank" /\ r.health < 0 THEN [r EXCEPT !.health = 0] ELSE r

CensusDecoded == probe.op = "census" /\ probe.done

\* C6: decoding a Census whose records are all well-formed Tank, Shape or
\* Bullet records with pairwise distinct ids yields entity_count, arena_size
\* and level as encoded and exactly one map entry per record, keyed by the
\* record's id and holding its fields as encoded, a negative Tank health
\* being returned as 0.
C6_CensusDecodeRoundTrip ==
  (CensusDecoded /\ AllKnown(probe.arg.records) /\ DistinctIds(probe.arg.records))
  => LET rs == probe.arg.records
         out == probe.out
     IN /\ out.ok
        /\ out.entity_count = Len(rs)
        /\ out.arena_size = probe.arg.arena_size
        /\ out.level = probe.arg.level
        /\ DOMAIN out.entities = { rs[i].id : i \in DOMAIN rs }
        /\ \A i \in DOMAIN rs : out.entities[rs[i].id] = AsDecoded(rs[i])

\* A Census of a Tank with negative health, a Shape and a Bullet, decoded.
C6_Witness ==
  /\ CensusDecoded
  /\ Len(probe.arg.records) = 3
  /\ AllKnown(probe.arg.records) /\ DistinctIds(probe.arg.records)
  /\ \E i \in 1..3 : probe.arg.records[i].kind = "Tank"
                     /\ probe.arg.records[i].health < 0
  /\ Cardinality(DOMAIN probe.out.entities) = 3

Bit(b, i) == (b \div (2 ^ i)) % 2 = 1

\* C7: for each of the 32 flag combinations the second byte of the encoded
\* Input packet has bit4 = W (up), bit3 = A (left), bit2 = S (down),
\* bit1 = D (right), bit0 = mouse_down and no other bit set.
C7_InputFlagsRoundTrip ==
  (probe.op = "input" /\ probe.done)
  => LET b == probe.out[2]
     IN /\ b \in 0..31
        /\ Bit(b, 4) = probe.arg.W
        /\ Bit(b, 3) = probe.arg.A
        /\ Bit(b, 2) = probe.arg.S
        /\ Bit(b, 1) = probe.arg.D
        /\ Bit(b, 0) = probe.arg.mouse_down

\* An Input packet with left and the mouse button set (and not right),
\* encoded.
C7_Witness ==
  /\ probe.op = "input" /\ probe.done
  /\ probe.arg.A /\ probe.arg.mouse_down /\ ~probe.arg.D /\ ~probe.arg.W
  /\ probe.out[2] = 9 + (IF probe.arg.S THEN 4 ELSE 0)

\* C8: the first byte of every encoded outbound message is its
\* discriminant (0 Init, 1 Input, 4 ChatMessage, 6 Respawn), and an encoded
\* Respawn is that single byte.
C8_OutboundDiscriminants ==
  probe.done =>
    /\ probe.op = "init" => probe.out[1] = 0
    /\ probe.op = "input" => probe.out[1] = 1
    /\ probe.op = "message" => probe.out[1] = 4
    /\ probe.op = "respawn" => probe.out = <<6>>

\* A Respawn has been encoded.
C8_Witness == probe.op = "respawn" /\ probe.done /\ Len(probe.out) = 1

\* C10 (as claimed): a Census record of unknown kind adds no entity and is
\* skipped, every well-formed record of the buffer still being decoded with
\* its encoded id and fields.
C10_UnknownKindSkipped ==
  (CensusDecoded /\ DistinctIds(probe.arg.records))
  => LET rs == probe.arg.records
         known == { i \in DOMAIN rs : KnownKind(rs[i]) }
         out == probe.out
     IN /\ out.ok
        /\ DOMAIN out.entities = { rs[i].id : i \in known }
        /\ \A i \in known : out.entities[rs[i].id] = AsDecoded(rs[i])

-----------------------------------------------------------------------------
(***************************************************************************)
(* PROPERTIES OF THE LIFECYCLE (checked under Spec).                       *)
(***************************************************************************)

\* The step is the onmessage callback running, the World borrowable, on a
\* message of the given first byte.
Receives(b) ==
  /\ event'.op = "message"
  /\ ~panicked
  /\ Len(event'.arg) >= 1
  /\ event'.arg[1] = b

\* The step is the given callback running with the World borrowable.
Runs(op) == event'.op = op /\ ~panicked

\* C1: a Death message carrying time-alive t, processed while the state is
\* Alive, leaves the state Dead(t); and no step other than the processing
\* of a Death message takes the state from Alive to Dead.
C1_DeathOnlyByDeathMessage ==
  [][/\ \A t \in {F64(30), F64(45)} :
          (Receives(5) /\ event'.arg = <<5>> \o t /\ ~is_dead(state))
          => state'.player_state = <<"Dead", t>>
     /\ (~is_dead(state) /\ is_dead(state')) => Receives(5)]_vars

\* A Death message has just taken the state to Dead(45).
C1_Witness ==
  /\ event = Ran("message", Death45)
  /\ state.player_state = <<"Dead", F64(45)>>
  /\ mockups # <<>>

\* C2: the Enter key-up handled while the state is Dead leaves the state
\* Alive, and that event hands exactly one buffer, a Respawn packet, to the
\* socket.
C2_RespawnIsOptimistic ==
  [][(Runs("keyup") /\ event'.arg = 13 /\ is_dead(state))
     => /\ state'.player_state = <<"Alive">>
        /\ sent' = << <<6>> >>]_vars

\* Enter has just been released after a death: Alive again, the Respawn
\* handed to the socket, no frame or message in between.
C2_Witness ==
  /\ event = Ran("keyup", KeyEnter)
  /\ sent = <<RespawnPacketEncode>>
  /\ state.player_state = Alive
  /\ ws_ready = 1

\* The Input packets among the buffers, and whether one is neutral.
IsInputPacket(buf) == Len(buf) >= 2 /\ buf[1] = 1

IsNeutralInput(buf) == IsInputPacket(buf) /\ buf[2] = 0

\* C3 (as claimed): every frame tick that runs while the state is Dead and
\* the connection is open sends an Input packet whose five flags are false.
C3_NeutralInputWhileDead ==
  [][(Runs("frame") /\ is_dead(state) /\ ws_ready = 1)
     => Len(sent') = 1 /\ IsNeutralInput(sent'[1])]_vars

\* C3 (amended): a frame tick that runs while the state is Dead sends
\* nothing at all, whether the connection is open or not; the neutral Input
\* packet replaces the real input only on a tick that runs while the state
\* is Alive, the chat box is open and the connection is open.
C3_NoInputWhileDead ==
  [][/\ (Runs("frame") /\ is_dead(state)) => sent' = <<>>
     /\ (Runs("frame") /\ ~is_dead(state) /\ state.chat_open /\ ws_ready = 1)
        => Len(sent') = 1 /\ IsNeutralInput(sent'[1])]_vars

\* A frame tick has just run for a dead player with a key held and the
\* connection open, and has sent nothing.
C3_Witness ==
  /\ event.op = "frame"
  /\ is_dead(state)
  /\ ws_ready = 1
  /\ input.W
  /\ sent = <<>>

\* C9: an inbound message whose first byte is no discriminant (not 0..7)
\* changes nothing of the World (Entity Store, local entity, targets,
\* lifecycle state, handshake info, leaderboard) and leaves the World
\* borrowable and the socket open, so that later messages are processed.
C9_UnknownDiscriminantDropped ==
  [][(event'.op = "message" /\ ~panicked /\ Len(event'.arg) >= 1
        /\ event'.arg[1] \notin 0..7)
     => /\ UNCHANGED <<yourself, state, input, size, entities, mockups, leaderboard>>
        /\ ~panicked'
        /\ ws_ready' = 1]_vars

\* An unknown message has just been dropped by a session that has its
\* handshake info, a leaderboard, a stored entity and a dead player.
C9_Witness ==
  /\ event = Ran("message", UnknownMessage)
  /\ mockups # <<>>
  /\ leaderboard # <<>>
  /\ DOMAIN entities # {}
  /\ is_dead(state)
  /\ ~panicked

-----------------------------------------------------------------------------
(***************************************************************************)
(* PROPERTIES OF THE RECONCILER (checked under SpecStore).                 *)
(***************************************************************************)

\* The ids the Census of message buf lists.
Listed(buf) == DOMAIN CensusDecode(buf, 1).entities

\* The step is a Census being processed and it purges store entry k.
Purges(k) == Receives(2) /\ BelowFade(entities[k])

\* C4: a store entity whose id is absent from a Census processed while its
\* opacity is at least 0.05 has opacity target 0 after that Census; and an
\* opacity target of 0 stays 0 through every later step (frame ticks,
\* Censuses that miss the id, Censuses that list it again) up to the Census
\* that removes the entry from the store.
C4_FadeOutIsMonotonic ==
  [][LET missed == IF Receives(2) THEN DOMAIN entities \ Listed(event'.arg)
                   ELSE {}
     IN \A k \in DOMAIN entities :
          /\ (k \in missed /\ ~BelowFade(entities[k]))
             => k \in DOMAIN entities' /\ entities'[k].opacity.tv = 0
          /\ (entities[k].opacity.tv = 0 /\ ~Purges(k))
             => k \in DOMAIN entities' /\ entities'[k].opacity.tv = 0]_vars

\* A Census that lists the fading bullet again has just been processed, and
\* the bullet, not yet purged, still has opacity target 0.
C4_Witness ==
  /\ event = Ran("message", CensusFull)
  /\ U32(2) \in DOMAIN entities
  /\ entities[U32(2)].opacity.tv = 0
  /\ ~BelowFade(entities[U32(2)])

\* The target values of an entity, of the local tank and of the session.
EntityTargets(e) ==
  [position |-> e.net_position,
   rotation |-> IF e.kind = "Tank" THEN e.net_rotation ELSE 0,
   health |-> IF e.kind = "Tank" THEN e.health.tv
              ELSE IF e.kind = "Shape" THEN e.health ELSE 0,
   opacity |-> e.opacity.tv,
   scale |-> IF e.kind = "Bullet" THEN e.scale.tv ELSE 0]

SessionTargets(w) ==
  [size |-> w.size.tv,
   level |-> w.state.level.tv,
   yourself |-> EntityTargets(w.yourself)]

\* The World after one and after two processings of Census message buf.
Once(buf) == CensusArm(CensusWorld, CensusDecode(buf, 1))

Twice(buf) == CensusArm(Once(buf), CensusDecode(buf, 1))

\* C5 (as claimed): processing the same Census a second time leaves every
\* target of the first processing as it is: the arena-size and level
\* targets and the position, rotation, health, opacity and scale targets of
\* every entity.
C5_CensusIdempotent ==
  \A buf \in StoreCensuses :
    LET w1 == Once(buf)
        w2 == CensusArm(w1, CensusDecode(buf, 1))
    IN /\ SessionTargets(w2) = SessionTargets(w1)
       /\ [k \in DOMAIN w2.entities |-> EntityTargets(w2.entities[k])]
          = [k \in DOMAIN w1.entities |-> EntityTargets(w1.entities[k])]

\* C5 (amended): processing the same Census a second time changes no
\* target of the session, of the local tank or of any entity that is still
\* in the store after it, and adds no entity; it may remove an entity the
\* Census does not list, which the first processing left below 0.05 opacity.
C5_CensusIdempotentOnSurvivors ==
  \A buf \in StoreCensuses :
    LET w1 == Once(buf)
        w2 == CensusArm(w1, CensusDecode(buf, 1))
        listed == Listed(buf)
    IN /\ SessionTargets(w2) = SessionTargets(w1)
       /\ DOMAIN w2.entities \subseteq DOMAIN w1.entities
       /\ \A k \in DOMAIN w2.entities :
            EntityTargets(w2.entities[k]) = EntityTargets(w1.entities[k])
       /\ \A k \in DOMAIN w1.entities \ DOMAIN w2.entities :
            k \notin listed /\ BelowFade(w1.entities[k])

\* A Census without the bullet has just been processed and has left the
\* bullet in the store below 0.05 opacity, next to a shape it updated: a
\* second processing purges the one and updates the other again.
C5_Witness ==
  /\ event = Ran("message", CensusNoBullet)
  /\ U32(2) \in DOMAIN entities
  /\ BelowFade(entities[U32(2)])
  /\ U32(1) \in DOMAIN entities
  /\ U32(2) \notin DOMAIN Twice(CensusNoBullet).entities
  /\ U32(1) \in DOMAIN Twice(CensusNoBullet).entities

-----------------------------------------------------------------------------
(***************************************************************************)
(* PROPERTIES UNDER A SERVER THAT BREAKS THE PROTOCOL (SpecAdverse), AND   *)
(* OF WHO CHANGES WHAT.                                                    *)
(***************************************************************************)

\* C11 (as claimed): an inbound message whose buffer ends before a field
\* its decode requires changes nothing of the World and leaves the session
\* running: later messages and frame ticks are still processed.
C11_TruncatedMessageDropped ==
  [][(event'.op = "message" /\ ~panicked /\ event'.arg \in {DeathShort, CensusShort})
     => /\ UNCHANGED <<yourself, state, input, size, entities, mockups, leaderboard>>
        /\ ~panicked']_vars

\* The Census of a message, as decoded.
CensusIn(buf) == CensusDecode(buf, 1).entities

\* C12 (as claimed): a Census processed before any Handshake changes neither
\* the Entity Store, nor the local entity, nor the session targets.
C12_EarlyCensusIsNoOp ==
  [][(Receives(2) /\ mockups = <<>>)
     => /\ UNCHANGED <<entities, yourself, size>>
        /\ state'.level = state.level]_vars

\* C13 (as claimed): once a Handshake has been processed, the local entity
\* id and the mockup list never change again, whatever arrives later.
C13_HandshakeIsImmutable ==
  [][mockups # <<>> => (mockups' = mockups /\ yourself'.id = yourself.id)]_vars

\* C14 (as claimed): a Census that reports an id under another kind than
\* the store entry held for it leaves, for that id, an entry of the kind
\* reported, built from the snapshot.
C14_KindChangeReplacesEntry ==
  [][(Receives(2) /\ event'.arg \in AdverseCensuses \ {CensusShort})
     => LET c == CensusIn(event'.arg)
        IN \A k \in (DOMAIN entities \cap DOMAIN c) \ {yourself.id} :
             c[k].kind # entities[k].kind
             => /\ k \in DOMAIN entities'
                /\ entities'[k].kind = c[k].kind
                /\ entities'[k].net_position = c[k].position]_vars

\* C15: at most one mutable handle to the World exists at any time.  Each
\* callback takes its RefMut on entry and drops it on return, and callbacks
\* run one after another; the only borrow that outlives its callback is the
\* one a trapped callback never dropped.  While that borrow is outstanding,
\* no callback obtains a second handle: whichever callback runs next leaves
\* every field of the World as it was, and the borrow stays outstanding.
C15_SingleMutableBorrow ==
  [][panicked => (UNCHANGED world /\ panicked')]_vars

\* A callback that borrows the World has run while a borrow was outstanding.
C15_Witness ==
  panicked /\ event.op \in {"frame", "keydown", "keyup", "mouse"}

\* C16 (as claimed): the store, the session targets, the lifecycle and the
\* input state change only in a frame tick or in the processing of a
\* message; a key or mouse callback changes none of them.
C16_OnlyFrameAndMessageMutate ==
  [][event'.op \in {"keydown", "keyup", "mouse"}
     => /\ UNCHANGED <<entities, size, input>>
        /\ state'.level = state.level
        /\ state'.player_state = state.player_state]_vars

\* C16 (amended): the store, the arena-size and level targets, the
\* mockup list and the leaderboard change only in a frame tick or in the
\* processing of a message.  A key-down or mouse-button callback changes
\* the input flags and nothing else of the World.  A key-up callback
\* changes besides only chat_open and, for Enter while Dead, the lifecycle
\* (to Alive) with the targets of the death animation (0) and of the local
\* tank's opacity (1).
C16_CallbacksMutateInputOnly ==
  [][/\ event'.op \notin {"frame", "message"}
          => /\ UNCHANGED <<entities, size, mockups, leaderboard>>
             /\ state'.level = state.level
     /\ event'.op \in {"open", "close", "mousemove"} => UNCHANGED world
     /\ event'.op \in {"keydown", "mouse"}
          => /\ UNCHANGED <<state, yourself>>
             /\ input'.mouse_position = input.mouse_position
     /\ event'.op = "keyup"
          => /\ input'.mouse_position = input.mouse_position
             /\ input'.mouse_down = input.mouse_down
             /\ IF event'.arg = KeyEnter /\ is_dead(state) /\ ~panicked
                THEN /\ state' = [state EXCEPT
                          !.player_state = Alive,
                          !.death_animation_completion = [@ EXCEPT !.tv = 0]]
                     /\ yourself' = [yourself EXCEPT
                          !.opacity = [@ EXCEPT !.tv = Unit]]
                ELSE /\ state' = [state EXCEPT !.chat_open = state'.chat_open]
                     /\ yourself' = yourself]_vars

\* Enter has just been released by a dead player, with W still held down
\* from an earlier key-down: both callbacks have changed the World.
C16_Witness ==
  /\ event = Ran("keyup", KeyEnter)
  /\ sent = <<RespawnPacketEncode>>
  /\ state.player_state = Alive
  /\ input.W

\* C17: the key set of the store changes only in the processing of a
\* Census, and a key leaves it only through the purge pass, that is only
\* when its entry was below the opacity threshold as that Census arrived.
\* No frame tick, Handshake, Death, Leaderboard, key or mouse event adds or
\* removes a key.
C17_StoreKeysChangeOnlyInCensus ==
  [][/\ DOMAIN entities' # DOMAIN entities => Receives(PacketCensus)
     /\ \A k \in DOMAIN entities \ DOMAIN entities' : BelowFade(entities[k])]_vars

\* After the Handshake, a Census without the bullet has been processed and
\* the bullet that came in with the tank of health 1 is no longer in the
\* store: the purge pass removed it.
C17_Witness ==
  /\ event = Ran("message", CensusNoBullet)
  /\ mockups # <<>>
  /\ LocalId \in DOMAIN entities
  /\ entities[LocalId].health.tv = Unit
  /\ U32(2) \notin DOMAIN entities

\* C18: right after a Census is processed, every id of its entity map other
\* than the local id is a key of the store.
C18_ListedIdsAreStored ==
  [][(Receives(PacketCensus) /\ CensusDecode(event'.arg, 1).ok)
     => Listed(event'.arg) \ {yourself.id} \subseteq DOMAIN entities']_vars

\* The Census of three records has been processed after the Handshake: the
\* shape and the bullet are in the store, the local tank's id is not.
C18_Witness ==
  /\ event = Ran("message", CensusFull)
  /\ mockups # <<>>
  /\ yourself.id = LocalId
  /\ {U32(1), U32(2)} \subseteq DOMAIN entities
  /\ LocalId \notin DOMAIN entities

\* C19: an entity that a Census inserts (its id was not in the store, or
\* its entry was purged by this Census) starts with value equal to target
\* on every smoothed field: position and net_position are the snapshot's
\* position and the opacity is 1 with target 1; a tank's rotation and
\* net_rotation are the snapshot's rotation and its health is the snapshot's
\* health with that target; a bullet's scale is 1 with target 1.
C19_InsertedAtTarget ==
  [][LET d == CensusDecode(event'.arg, 1)
     IN (Receives(PacketCensus) /\ d.ok)
        => \A k \in DOMAIN d.entities \ {yourself.id} :
             (k \notin DOMAIN entities \/ BelowFade(entities[k]))
             => LET e == entities'[k]
                    c == d.entities[k]
                IN /\ e.kind = c.kind
                   /\ e.position = Vec2(c.position.x, c.position.y)
                   /\ e.net_position = e.position
                   /\ e.opacity = [value |-> Unit, tv |-> Unit]
                   /\ e.kind = "Tank"
                        => /\ e.rotation = c.rotation
                           /\ e.net_rotation = c.rotation
                           /\ e.health = [value |-> c.health, tv |-> c.health]
                   /\ e.kind = "Bullet"
                        => e.scale = [value |-> Unit, tv |-> Unit]]_vars

\* The Census that lists id 1 as a tank has been processed and the tank is
\* in the store as it was inserted, next to the bullet of an earlier Census.
C19_Witness ==
  /\ event = Ran("message", CensusKindSwap)
  /\ U32(1) \in DOMAIN entities
  /\ entities[U32(1)].kind = "Tank"
  /\ entities[U32(1)].position = Vec2(8, -4)
  /\ entities[U32(1)].net_position = Vec2(8, -4)
  /\ entities[U32(1)].rotation = 90
  /\ entities[U32(1)].health = [value |-> Unit - 1, tv |-> Unit - 1]
  /\ entities[U32(1)].opacity = [value |-> Unit, tv |-> Unit]
  /\ U32(2) \in DOMAIN entities
  /\ entities[U32(2)].kind = "Bullet"

\* C20: a Census whose entry under the local id is a Shape or a Bullet
\* leaves the local entity as it was and puts nothing in the store under
\* that id (an entry the store already holds under it is left as it was,
\* unless the purge pass removes it); the callback does not trap, and the
\* other entries of the Census are processed: their ids are in the store
\* afterwards.
C20_LocalIdOfOtherKindIgnored ==
  [][LET d == CensusDecode(event'.arg, 1)
     IN (/\ Receives(PacketCensus) /\ d.ok
         /\ yourself.id \in DOMAIN d.entities
         /\ d.entities[yourself.id].kind \in {"Shape", "Bullet"})
        => /\ yourself' = yourself
           /\ ~panicked'
           /\ yourself.id \notin DOMAIN entities
                => yourself.id \notin DOMAIN entities'
           /\ (yourself.id \in DOMAIN entities /\ ~BelowFade(entities[yourself.id]))
                => /\ yourself.id \in DOMAIN entities'
                   /\ entities'[yourself.id] = entities[yourself.id]
           /\ DOMAIN d.entities \ {yourself.id} \subseteq DOMAIN entities']_vars

\* After the Handshake that names id 7, the Census listing id 7 as a Shape
\* has been processed: its bullet is in the store, id 7 is not, and the
\* local tank is where it was.
C20_Witness ==
  /\ event = Ran("message", CensusLocalShape)
  /\ yourself.id = LocalId
  /\ ~panicked
  /\ U32(2) \in DOMAIN entities
  /\ LocalId \notin DOMAIN entities
  /\ yourself.net_position = Vec2(0, 0)
  /\ yourself.radius = 50

-----------------------------------------------------------------------------
(***************************************************************************)
(* WHO WRITES TARGETS AND WHO WRITES RENDERED VALUES.                      *)
(***************************************************************************)

\* The targets of the Scalars of an entity.
ScalarTargets(e) ==
  [opacity |-> e.opacity.tv,
   health |-> IF e.kind = "Tank" THEN e.health.tv ELSE 0,
   scale |-> IF e.kind = "Bullet" THEN e.scale.tv ELSE 0]

\* The targets the Census arm writes: arena size, level, the local tank's
\* health and the Scalars of the store's entities.
CensusTargets ==
  [size |-> size.tv,
   level |-> state.level.tv,
   health |-> yourself.health.tv,
   entities |-> [k \in DOMAIN entities |-> ScalarTargets(entities[k])]]

\* The targets of the death screen: the death animation and the local
\* tank's opacity.
DeathScreenTargets ==
  <<state.death_animation_completion.tv, yourself.opacity.tv>>

\* C21 (as claimed): a frame tick or a key event writes the target of no
\* smoothed value (opacity, health, size, level, death animation).
C21_TargetsWrittenOnlyByCensus ==
  [][event'.op \in {"frame", "keydown", "keyup"}
     => /\ CensusTargets' = CensusTargets
        /\ DeathScreenTargets' = DeathScreenTargets]_vars

\* C21 (amended): the targets of arena size, level, the local tank's health
\* and of every store entity's opacity, health and scale change only while
\* a Census is processed.  The targets of the death animation and of the
\* local tank's opacity are never written by a Census: they change only in
\* a frame tick that runs once the mockups are known, and in the key-up of
\* Enter while the player is Dead.
C21_CensusTargetsOnlyByCensus ==
  [][/\ CensusTargets' # CensusTargets => Receives(PacketCensus)
     /\ DeathScreenTargets' # DeathScreenTargets
          => \/ Runs("frame") /\ mockups # <<>>
             \/ Runs("keyup") /\ event'.arg = KeyEnter /\ is_dead(state)]_vars

\* A frame tick of a dead player has run: the death animation's target is
\* 1 and the local tank's opacity target is 0, neither from a Census.
C21_Witness ==
  /\ event.op = "frame"
  /\ is_dead(state)
  /\ mockups # <<>>
  /\ DeathScreenTargets = <<Unit, 0>>
  /\ yourself.opacity.value < Unit

-----------------------------------------------------------------------------
(***************************************************************************)
(* FRAME TIMING: ticks that come early, on time, late, and after the tab   *)
(* was in the background.  The first tick measures performance.now()       *)
(* against a Date::now() taken at start, a large negative gap.             *)
(***************************************************************************)
TimingGaps == {-1600, 8, 16, 48, 160, 500, 501, 1000}

NextTiming ==
  \/ \E gap \in TimingGaps :
       Frame(gap, Vec2(0, 0)) /\ event' = Ran("frame", gap)
  \/ NextOn({Handshake1, UnknownMessage}, {KeyEnter}, {TRUE}, {Vec2(0, 0)}, {Vec2(0, 0)})

SpecTiming == Init /\ [][NextTiming]_vars

\* C22: after every frame tick the frame delta is at least 1.0, and it is
\* exactly 1.0 after a tick whose gap since the previous tick exceeded
\* 500 ms, whatever the delta was before.
C22_DeltaFlooredAndReset ==
  [][Runs("frame")
     => /\ delta' >= Unit
        /\ event'.arg > 500 => delta' = Unit]_vars

\* A tick has run a second after the previous one and the delta is 1.0,
\* in a session that ticks with a larger delta elsewhere.
C22_Witness ==
  /\ event = Ran("frame", 1000)
  /\ ~panicked
  /\ delta = Unit

-----------------------------------------------------------------------------
(***************************************************************************)
(* THE INTERPOLATION PRIMITIVES ON THEIR OWN (src/src/util.rs): one        *)
(* Scalar::update on a Scalar whose value and target are MaxUlp floats     *)
(* apart at most, and one lerp_angle between two angles.                   *)
(***************************************************************************)
MaxUlp == 8

\* The rates below 1 that the callers pass: 0.05, 0.075, 0.1, 0.2, 0.3, 0.5,
\* and one close to 1.
UpdateRates ==
  { <<1, 20>>, <<3, 40>>, <<1, 10>>, <<1, 5>>, <<3, 10>>, <<1, 2>>, <<9, 10>> }

AngleRates == { <<3, 10>>, <<1, 2>> }

InitNumeric ==
  /\ SessionInit
  /\ event = Ran("start", <<>>)
  /\ probe \in
       { Todo("update", [s |-> [value |-> v, tv |-> t], num |-> r[1], den |-> r[2]]) :
           v \in 0..MaxUlp, t \in 0..MaxUlp, r \in UpdateRates }
       \cup
       { Todo("lerp_angle", [a |-> a, b |-> b, num |-> r[1], den |-> r[2]]) :
           a \in AngleSet, b \in AngleSet, r \in AngleRates }

DoScalarUpdate ==
  /\ Pending("update")
  /\ Finish(ScalarUpdateUlp(probe.arg.s, probe.arg.num, probe.arg.den))
  /\ UNCHANGED session

DoLerpAngle ==
  /\ Pending("lerp_angle")
  /\ Finish(lerp_angle(probe.arg.a, probe.arg.b, probe.arg.num, probe.arg.den))
  /\ UNCHANGED session

NextNumeric ==
  \/ DoScalarUpdate
  \/ DoLerpAngle

SpecNumeric == InitNumeric /\ [][NextNumeric]_vars

Abs(x) == IF x >= 0 THEN x ELSE -x

\* An update(r) has been applied to a Scalar whose value was off its target.
Updated == probe.op = "update" /\ probe.done /\ probe.arg.s.value # probe.arg.s.tv

\* The distance to the target before and after the update.
GapBefore == Abs(probe.arg.s.tv - probe.arg.s.value)

GapAfter == Abs(probe.out.tv - probe.out.value)

\* The value has not passed the target.
NoOvershoot ==
  (probe.out.value - probe.out.tv) * (probe.arg.s.value - probe.arg.s.tv) >= 0

\* C23 (as claimed): for value # target and 0 < r < 1, update(r) strictly
\* decreases |value - target| and leaves the value on the same side of the
\* target.
C23_UpdateStrictlyContracts ==
  Updated => (GapAfter < GapBefore /\ NoOvershoot)

\* C23 (amended): for value # target and 0 < r < 1, update(r) never
\* increases |value - target|, never moves the value past the target and
\* never touches the target; it strictly decreases the distance when the
\* step r * |target - value| is more than half the spacing of the floats at
\* the value, and leaves the value where it is when the step is less than
\* half that spacing.
C23_UpdateContractsDownToResolution ==
  Updated
  => /\ GapAfter <= GapBefore
     /\ NoOvershoot
     /\ probe.out.tv = probe.arg.s.tv
     /\ 2 * GapBefore * probe.arg.num > probe.arg.den => GapAfter < GapBefore
     /\ 2 * GapBefore * probe.arg.num < probe.arg.den => GapAfter = GapBefore

\* update(0.1) on a value one float below its target has left the value
\* where it was.
C23_Witness ==
  /\ probe.op = "update" /\ probe.done
  /\ probe.arg = [s |-> [value |-> 3, tv |-> 4], num |-> 1, den |-> 10]
  /\ probe.out = [value |-> 3, tv |-> 4]

\* The angle between two directions, in degrees.
AngDist(x, y) ==
  LET d == Abs(x - y) % 360 IN IF d > 180 THEN 360 - d ELSE d

\* C24: lerp_angle takes the shorter way round: between two directions that
\* are not opposite, the result is no further from either than they are
\* from each other; from 179 degrees to -179 degrees with t = 0.5 it is
\* 180 degrees, not 0.
C24_LerpAngleShortestPath ==
  (probe.op = "lerp_angle" /\ probe.done)
  => /\ AngDist(probe.arg.a, probe.arg.b) < 180
          => /\ AngDist(probe.out, probe.arg.a) <= AngDist(probe.arg.a, probe.arg.b)
             /\ AngDist(probe.out, probe.arg.b) <= AngDist(probe.arg.a, probe.arg.b)
     /\ (probe.arg.a = 179 /\ probe.arg.b = -179 /\ probe.arg.num = 1 /\ probe.arg.den = 2)
          => AngDist(probe.out, 180) = 0

C24_Witness ==
  /\ probe.op = "lerp_angle" /\ probe.done
  /\ probe.arg = [a |-> 179, b |-> -179, num |-> 1, den |-> 2]
  /\ probe.out = 180

-----------------------------------------------------------------------------
(***************************************************************************)
(* THE PASSES OF THE CENSUS ARM, ENTRY BY ENTRY.                           *)
(***************************************************************************)

\* C25: a store entity whose rendered opacity is at least 0.05 when a Census
\* arrives is in the store after that Census; if the Census does not list
\* its id, its opacity target is then 0 and, for a bullet, its scale target
\* is 2.
C25_VisibleEntityKept ==
  [][LET d == CensusDecode(event'.arg, 1)
     IN (Receives(PacketCensus) /\ d.ok)
        => \A k \in DOMAIN entities :
             ~BelowFade(entities[k])
             => /\ k \in DOMAIN entities'
                /\ k \notin DOMAIN d.entities
                     => /\ entities'[k].opacity.tv = 0
                        /\ entities'[k].kind = "Bullet"
                             => entities'[k].scale.tv = 2 * Unit]_vars

\* The Census without the bullet has been processed and the bullet is in
\* the store, fading and growing.
C25_Witness ==
  /\ event = Ran("message", CensusNoBullet)
  /\ U32(2) \in DOMAIN entities
  /\ entities[U32(2)].kind = "Bullet"
  /\ entities[U32(2)].opacity.tv = 0
  /\ entities[U32(2)].scale.tv = 2 * Unit
  /\ entities[U32(2)].opacity.value < Unit

\* C26: a store entity whose rendered opacity is below 0.05 when a Census
\* arrives is removed by that Census whether or not the Census lists its
\* id: afterwards the store has no entry under the id or, when the id is
\* listed as a foreign entity, a new entry built from the snapshot.
C26_FadedEntityPurged ==
  [][LET d == CensusDecode(event'.arg, 1)
     IN (Receives(PacketCensus) /\ d.ok)
        => \A k \in DOMAIN entities :
             BelowFade(entities[k])
             => IF k \in DOMAIN d.entities \ {yourself.id}
                THEN entities'[k] = CensusInsertEntity(d.entities[k])
                ELSE k \notin DOMAIN entities']_vars

\* The empty Census has been processed: of the tank, shape and bullet that
\* came in together, the shape is still fading and the bullet is gone.
C26_Witness ==
  /\ event = Ran("message", CensusEmpty)
  /\ LocalId \in DOMAIN entities
  /\ entities[LocalId].health.tv = Unit
  /\ U32(1) \in DOMAIN entities
  /\ entities[U32(1)].opacity.tv = 0
  /\ U32(2) \notin DOMAIN entities

C28_LocalTankUpdatedOutsideStore ==
  [][LET d == CensusDecode(event'.arg, 1)
         id == yourself.id
     IN (/\ Receives(PacketCensus) /\ d.ok
         /\ id \in DOMAIN d.entities
         /\ d.entities[id].kind = "Tank")
        => LET t == d.entities[id]
           IN /\ yourself' = [yourself EXCEPT
                     !.net_position = Vec2(t.position.x, t.position.y),
                     !.mockup = t.mockup,
                     !.radius = t.radius,
                     !.health = [@ EXCEPT !.tv = t.health],
                     !.message = t.message,
                     !.damaged = yourself'.damaged]
              /\ id \notin DOMAIN entities => id \notin DOMAIN entities'
              /\ (id \in DOMAIN entities /\ ~BelowFade(entities[id]))
                   => /\ id \in DOMAIN entities'
                      /\ entities'[id] = entities[id]]_vars

\* After the Handshake, the Census that reports the local tank at a lower
\* health has been processed: the local tank has the new health target,
\* and the store entry that an earlier Census had put under the same id
\* still has the old one.
C28_Witness ==
  /\ event = Ran("message", CensusNoBullet)
  /\ yourself.id = LocalId
  /\ yourself.health.tv = Unit - 1
  /\ LocalId \in DOMAIN entities
  /\ entities[LocalId].health.tv = Unit

-----------------------------------------------------------------------------
(***************************************************************************)
(* DAMAGE: a server that reports the local tank, another tank and a shape  *)
(* at full health or hurt.                                                 *)
(***************************************************************************)
Tank3(health) == PTank(U32(3), Vec2(4, 0), 45, Vec2(0, 0), 0, health, 50, NameX, <<>>)

Shape4(health) == PShape(U32(4), Vec2(0, 4), health, 20)

CensusHealth(h) == CensusOf(<<LocalTank(h), Tank3(h), Shape4(h)>>)

CensusMixed == CensusOf(<<LocalTank(Unit - 1), Tank3(Unit), Shape4(Unit - 2)>>)

DamageMessages ==
  {Handshake1, CensusHealth(Unit), CensusHealth(Unit - 1), CensusMixed}

NextDamage == NextOn(DamageMessages, {KeyW}, {TRUE}, {Vec2(0, 0)}, {Vec2(0, 0)})

SpecDamage == Init /\ [][NextDamage]_vars

\* C29: when a Census updates a tank (the local one or one in the store) or
\* a shape, the update sets the damaged flag exactly when the snapshot's
\* health is strictly lower than the health stored before the Census wrote
\* the new one (a tank's health target, a shape's health); with equal or
\* higher health the flag is left as it was.
C29_DamagedIffHealthDropped ==
  [][LET d == CensusDecode(event'.arg, 1)
         id == yourself.id
     IN (Receives(PacketCensus) /\ d.ok)
        => /\ (id \in DOMAIN d.entities /\ d.entities[id].kind = "Tank")
                => yourself'.damaged =
                     IF d.entities[id].health < yourself.health.tv
                     THEN TRUE ELSE yourself.damaged
           /\ \A k \in (DOMAIN entities \cap DOMAIN d.entities) \ {id} :
                (/\ ~BelowFade(entities[k])
                 /\ entities[k].kind = d.entities[k].kind
                 /\ entities[k].kind \in {"Tank", "Shape"})
                => LET before == IF entities[k].kind = "Tank"
                                 THEN entities[k].health.tv
                                 ELSE entities[k].health
                   IN entities'[k].damaged =
                        IF d.entities[k].health < before
                        THEN TRUE ELSE entities[k].damaged]_vars

\* The Census that reports the local tank and the shape hurt and the other
\* tank at full health has been processed: the first two are flagged, the
\* other tank is not.
C29_Witness ==
  /\ event = Ran("message", CensusMixed)
  /\ yourself.id = LocalId
  /\ yourself.damaged
  /\ yourself.health.tv = Unit - 1
  /\ {U32(3), U32(4)} \subseteq DOMAIN entities
  /\ entities[U32(4)].damaged
  /\ entities[U32(4)].health = Unit - 2
  /\ ~entities[U32(3)].damaged
  /\ entities[U32(3)].health.value < Unit

-----------------------------------------------------------------------------
\* C30: a frame tick that runs while the lifecycle state is Dead does not
\* apply the W/A/S/D keys to the local tank's velocity, whatever keys are
\* held down: the velocity after the tick is the one before it, damped by
\* the draw, with nothing added, and the tank has moved by the velocity it
\* had and toward its position target, and no further.
C30_DeadPlayerNotSteered ==
  [][(Runs("frame") /\ is_dead(state) /\ ~panicked')
     => /\ yourself'.velocity = Vec2(Lerp(yourself.velocity.x, 0, 2, 10),
                                     Lerp(yourself.velocity.y, 0, 2, 10))
        /\ yourself'.position =
             Vec2(Lerp(yourself.position.x, yourself.net_position.x, 5, 100)
                    + yourself.velocity.x,
                  Lerp(yourself.position.y, yourself.net_position.y, 5, 100)
                    + yourself.velocity.y)]_vars

\* A tick has run for a dead player with W held down, and the local tank
\* is at rest.
C30_Witness ==
  /\ event.op = "frame"
  /\ is_dead(state)
  /\ input.W
  /\ ~state.chat_open
  /\ yourself.velocity = Vec2(0, 0)

-----------------------------------------------------------------------------
(***************************************************************************)
(* LIFECYCLE AND STORE OVER WHOLE RUNS.                                    *)
(***************************************************************************)

\* C31: processing a Census never changes the lifecycle state (a player who
\* respawned optimistically stays Alive through it, a dead one stays Dead),
\* and a step that takes the state to Dead, or changes the Dead state, is
\* the processing of a Death message.
C31_CensusKeepsLifecycle ==
  [][/\ Receives(PacketCensus) => state'.player_state = state.player_state
     /\ (is_dead(state') /\ state'.player_state # state.player_state)
          => Receives(PacketDeath)]_vars

\* A Census has been processed for a player who died, respawned with Enter
\* (the death animation has not yet run back) and is Alive.
C31_Witness ==
  /\ event = Ran("message", CensusLocal)
  /\ state.player_state = Alive
  /\ state.death_animation_completion.value > 0
  /\ yourself.id = LocalId

\* C32 (as claimed): in every reachable state the store holds no entry
\* under the current local id.
C32_NoStoreEntryUnderLocalId ==
  yourself.id \notin DOMAIN entities

-----------------------------------------------------------------------------
(***************************************************************************)
(* MOCKUP INDICES: a server whose Handshake may list no mockup and whose   *)
(* Census reports a tank under a mockup id the list does not have.         *)
(***************************************************************************)
Handshake0 == WireHandshake(LocalId, <<>>)

Tank3Mockup(mockup) ==
  PTank(U32(3), Vec2(4, 0), 45, Vec2(0, 0), mockup, Unit, 50, NameX, <<>>)

CensusMockup(mockup) == CensusOf(<<Tank3Mockup(mockup)>>)

MockupMessages == {Handshake0, Handshake1, CensusMockup(0), CensusMockup(2)}

NextMockups == NextOn(MockupMessages, {KeyW}, {TRUE}, {Vec2(0, 0)}, {Vec2(0, 0)})

SpecMockups == Init /\ [][NextMockups]_vars

\* C33 (as claimed): whenever the mockup list is set, the mockup index of
\* the local tank and of every store tank is a valid index into it.
C33_MockupIndexValid ==
  mockups # <<>>
  => /\ yourself.mockup < Len(mockups[1])
     /\ \A k \in DOMAIN entities :
          entities[k].kind = "Tank" => entities[k].mockup < Len(mockups[1])

-----------------------------------------------------------------------------
(***************************************************************************)
(* FADING AND COMING BACK: a server that lists a tank, a shape and a       *)
(* bullet, or nothing at all.                                              *)
(***************************************************************************)
\* The tank of CensusFull, moved and hurt; no shape and no bullet.
TankMoved ==
  PTank(LocalId, Vec2(1, 0), 0, Vec2(0, 0), 0, Unit - 1, 50, NameX, <<>>)

CensusMoved == CensusOf(<<TankMoved>>)

FadeMessages == {CensusFull, CensusMoved, CensusEmpty, Handshake1}

\* The browser runs the frame closure again and again: each tick ends by
\* requesting the next animation frame.
FrameTick ==
  \E gap \in SessionGaps : Frame(gap, Vec2(0, 0)) /\ event' = Ran("frame", gap)

\* The fading server over a connection that stays open, the player idle.
NextFade ==
  \/ \E name \in {NameX} : OnOpen(name) /\ event' = Ran("open", name)
  \/ \E buf \in FadeMessages :
       OnMessage(buf) /\ event' = Ran("message", buf)
  \/ FrameTick

SpecFade == Init /\ [][NextFade]_vars

\* The same with the ticks kept going.
SpecFadeLive == Init /\ [][NextFade]_vars /\ WF_vars(FrameTick)

\* The entry is as new: nothing in it but what the snapshot record says.
FreshFrom(e, c) ==
  /\ e.kind = c.kind
  /\ e.opacity = [value |-> Unit, tv |-> Unit]
  /\ e.position = Vec2(c.position.x, c.position.y)
  /\ e.net_position = e.position
  /\ e.kind = "Tank"
       => /\ e.health = [value |-> c.health, tv |-> c.health]
          /\ e.rotation = c.rotation
          /\ e.net_rotation = c.rotation
          /\ ~e.damaged
  /\ e.kind = "Shape" => e.health = c.health /\ ~e.damaged /\ e.needs_redraw
  /\ e.kind = "Bullet" => e.scale = [value |-> Unit, tv |-> Unit]

\* C34: a store entity that is below 0.05 opacity when a Census arrives and
\* whose id, not the local id, is listed in that Census is after the Census
\* a freshly created entry: opacity value and target 1, rendered position
\* the snapshot's, and no state of the old entry carried over.
C34_FadedListedEntityIsRecreated ==
  [][LET d == CensusDecode(event'.arg, 1)
     IN (Receives(PacketCensus) /\ d.ok)
        => \A k \in (DOMAIN entities \cap DOMAIN d.entities) \ {yourself.id} :
             BelowFade(entities[k])
             => /\ k \in DOMAIN entities'
                /\ FreshFrom(entities'[k], d.entities[k])]_vars

\* CensusFull has just recreated the tank, which CensusMoved had left hurt
\* and elsewhere, and the shape and the bullet, which had faded meanwhile;
\* all three are opaque at their CensusFull positions, long after the first
\* Census (the arena size has settled).
C34_Witness ==
  /\ event = Ran("message", CensusFull)
  /\ size.value = size.tv
  /\ {LocalId, U32(1), U32(2)} \subseteq DOMAIN entities
  /\ yourself.id # LocalId
  /\ \A k \in {LocalId, U32(1), U32(2)} :
       /\ entities[k].opacity = [value |-> Unit, tv |-> Unit]
       /\ entities[k].position = Vec2(0, 0)
  /\ ~entities[LocalId].damaged
  /\ entities[LocalId].health = [value |-> Unit, tv |-> Unit]

\* The ids the fading server ever lists.
FadeIds == {LocalId, U32(1), U32(2)}

\* The step is a Census being processed.
CensusStep == Receives(PacketCensus) /\ CensusDecode(event'.arg, 1).ok

\* C35: if Censuses keep arriving and an id is absent from every Census
\* from some point on, the store entry of that id is eventually removed for
\* good.  No frame tick is asked for: each Census that misses the id moves
\* the rendered opacity toward 0 by itself.
C35_AbsentEntityEventuallyRemoved ==
  \A k \in FadeIds :
    ( /\ []<><<CensusStep>>_vars
      /\ <>[][CensusStep => k \notin Listed(event'.arg)]_vars )
    => <>[](k \notin DOMAIN entities)

\* The empty Census has emptied a store that an earlier Census had filled,
\* and no frame tick has run since the first Census (the rendered arena
\* size has not moved from its initial value).
C35_Witness ==
  /\ event = Ran("message", CensusEmpty)
  /\ entities = EmptyMap
  /\ size = [value |-> 1, tv |-> 2]
  /\ ~panicked

\* The store holds an entry of id k that is fading.
Fading(k) == k \in DOMAIN entities /\ entities[k].opacity.tv = 0

\* The store holds an entry of id k that is to be opaque.
Opaque(k) == k \in DOMAIN entities /\ entities[k].opacity.tv = Unit

\* C36 (as claimed): if a store entity is fading and its id is listed in
\* every Census from some point on, then, frame ticks and Censuses going on,
\* the store eventually holds an entry of that id with opacity target 1:
\* the entity does not stay invisible or missing.
C36_ListedEntityEventuallyOpaque ==
  \A k \in FadeIds :
    ( /\ []<><<CensusStep>>_vars
      /\ <>[][CensusStep => k \in Listed(event'.arg)]_vars )
    => (Fading(k) ~> Opaque(k))

-----------------------------------------------------------------------------
(***************************************************************************)
(* WHAT THE CLIENT SENDS (checked under Spec).                             *)
(***************************************************************************)

\* The flags and the mouse position an Input packet carries.
InputCarried(buf) ==
  [W |-> (buf[2] \div 16) % 2 = 1,
   A |-> (buf[2] \div 8) % 2 = 1,
   S |-> (buf[2] \div 4) % 2 = 1,
   D |-> (buf[2] \div 2) % 2 = 1,
   mouse_down |-> buf[2] % 2 = 1,
   mouse_position |-> Vec2(get_16(buf, 2), get_16(buf, 4))]

\* C37: a frame tick sends at most one packet, an Input packet, and only
\* when the connection is open and the lifecycle state is not Dead.  With
\* the chat box open the packet carries five false flags and the mouse
\* position (0,0); otherwise it carries the input state as the tick leaves
\* it.
C37_TickSendsOneInput ==
  [][Runs("frame")
     => /\ Len(sent') <= 1
        /\ sent' # <<>>
           => /\ ws_ready = 1
              /\ ~is_dead(state)
              /\ IsInputPacket(sent'[1])
              /\ Len(sent'[1]) = 6
              /\ InputCarried(sent'[1]) =
                   IF state.chat_open THEN InputNew ELSE input']_vars

\* A tick of a living player with W held, the chat box open and the cursor
\* away from the origin has sent the neutral packet.
C37_Witness ==
  /\ event.op = "frame"
  /\ ~is_dead(state)
  /\ state.chat_open
  /\ input.W
  /\ input.mouse_position # Vec2(0, 0)
  /\ sent = <<InputPacketEncode(InputNew)>>

-----------------------------------------------------------------------------
(***************************************************************************)
(* RESPAWNS AND DEATHS, COUNTED.  The record of the last callback also     *)
(* carries how many Respawn packets the client has sent and how many Death *)
(* messages it has processed so far.                                       *)
(***************************************************************************)
MaxDeaths == 3

Tally(op, arg, sending, dying) ==
  [op |-> op, arg |-> arg,
   respawns |-> event.respawns + (IF sending THEN 1 ELSE 0),
   deaths |-> event.deaths + (IF dying THEN 1 ELSE 0)]

\* The callback sends a Respawn packet.
SendsRespawn == \E i \in DOMAIN sent' : sent'[i] = RespawnPacketEncode

\* The message is a Death message and its arm runs to its end.
DeathProcessed(buf) ==
  /\ Len(buf) >= 1
  /\ buf[1] = PacketDeath
  /\ ~panicked
  /\ ~panicked'

InitRespawn ==
  /\ SessionInit
  /\ probe = NoProbe
  /\ event = [op |-> "start", arg |-> <<>>, respawns |-> 0, deaths |-> 0]

\* A player who dies and comes back, over a server that may also cut a
\* Death message short.
NextRespawn ==
  \/ \E name \in {NameX} :
       OnOpen(name) /\ event' = Tally("open", name, SendsRespawn, FALSE)
  \/ WsClose /\ event' = Tally("close", <<>>, SendsRespawn, FALSE)
  \/ \E buf \in {Handshake1, Death30, DeathShort} :
       /\ buf[1] = PacketDeath => event.deaths < MaxDeaths
       /\ OnMessage(buf)
       /\ event' = Tally("message", buf, SendsRespawn, DeathProcessed(buf))
  \/ \E gap \in SessionGaps :
       /\ Frame(gap, Vec2(0, 0))
       /\ event' = Tally("frame", gap, SendsRespawn, FALSE)
  \/ \E key \in {KeyEnter, KeyEscape}, text \in SessionTexts :
       /\ OnKeyUp(key, text)
       /\ event' = Tally("keyup", key, SendsRespawn, FALSE)

SpecRespawn == InitRespawn /\ [][NextRespawn]_vars

\* The step is the keyup callback running on Enter.
EnterUp == Runs("keyup") /\ event'.arg = KeyEnter

\* C38: a Respawn packet is sent only by an Enter key-up that finds the
\* lifecycle state Dead, so the number of Respawn packets sent never exceeds
\* the number of Death messages processed; and an Enter key-up that finds
\* the state Alive only toggles the chat box, submitting its text when it
\* closes it.
C38_RespawnOnlyAfterDeath ==
  /\ [](event.respawns <= event.deaths)
  /\ [][/\ SendsRespawn => EnterUp /\ is_dead(state)
        /\ (EnterUp /\ ~is_dead(state))
           => /\ state' = [state EXCEPT !.chat_open = ~@]
              /\ Len(sent') = (IF state.chat_open THEN 1 ELSE 0)
              /\ \A i \in DOMAIN sent' : sent'[i][1] = PacketMessage
              /\ UNCHANGED <<yourself, input, size, entities, mockups,
                             leaderboard, mouse_position, delta, ws_ready,
                             panicked>>]_vars

\* The player has died three times and has just respawned for the third
\* time.
C38_Witness ==
  /\ event.op = "keyup"
  /\ event.arg = KeyEnter
  /\ event.respawns = MaxDeaths
  /\ event.deaths = MaxDeaths
  /\ sent = <<RespawnPacketEncode>>
  /\ ~is_dead(state)
  /\ ~panicked

=============================================================================
